---- MODULE Spec2Model ----
(***************************************************************************)
(* The external-process lifecycle supervisor of the OpenAkita setup center *)
(* (apps/setup-center/src-tauri/src/main.rs): PID record store, heartbeat  *)
(* monitor, start lock, port gate and the lifecycle controller (Start,     *)
(* Stop, Status, Reconcile) over an abstract operating system (process     *)
(* table, TCP ports, run directory).                                       *)
(*                                                                         *)
(* Threads: "ui" is the main thread, on which the controller boots         *)
(* (startup_reconcile) and on which every synchronous command runs, one at *)
(* a time; "auto" is the background thread main() spawns for the automatic *)
(* Start.  Spec has the main thread alone, SpecAuto adds the auto thread.  *)
(***************************************************************************)
EXTENDS Integers, Sequences, FiniteSets, TLC

VARIABLES
    phase,      \* "boot": controller process launched; "setup": startup_reconcile has run;
                \* "up": the setup closure of main() has returned, commands are served
    proc,       \* the OS process table: pid -> process
    portOwner,  \* TCP port -> pid listening on it, 0 (free) or Foreign
    pidFile,    \* run_dir()/openakita-<ws>.pid: workspace -> file content
    lockFile,   \* run_dir()/openakita-<ws>.lock: workspace -> exists
    hbFile,     \* <workspace>/data/backend.heartbeat: workspace -> age of its timestamp, or NoHb
    mc,         \* MANAGED_CHILD: the single Option<ManagedProcess> slot
    autoFlag,   \* AUTO_START_IN_PROGRESS
    thr,        \* thread -> its openakita_service_start:
                \*   pc: position inside it ("idle" outside it)
                \*   ws: the workspace_id argument
                \*   pid: pid of the child it spawned (0: none yet)
                \*   stopped (history): it began while no backend of ws existed
    ret         \* the operation that returned in the last step, NoRet otherwise (history)

vars == <<phase, proc, portOwner, pidFile, lockFile, hbFile, mc, autoFlag,
          thr, ret>>

----------------------------------------------------------------------------
(* Bounds of the model *)

\* pids the operating system hands out: 1..MaxPid
MaxPid == 2
\* seconds after a backend's start at which its pid, free again, is reused: 0..MaxDelay
MaxDelay == 6

(* Program constants *)

DefaultPort == 18900
\* is_pid_file_valid: tolerated difference between started_at and the creation time
CreateTimeTolerance == 5
\* startup_reconcile: heartbeat age beyond which a valid process is treated as hung
ReconcileStaleSecs == 60
\* build_service_status: heartbeat age beyond which heartbeat_stale is Some(true)
StatusStaleSecs == 30

----------------------------------------------------------------------------
(* Instance identifiers are strings; a string is a sequence of tokens so   *)
(* that the file-name conversions below act on it as the code does.        *)

Prefix == "openakita-"
PidSuffix == ".pid"

WsA == <<"a">>
WsB == <<Prefix, "a">>
Workspaces == {WsA, WsB}

Pids == 1..MaxPid
\* a listener that is no process of the model (another program's server)
Foreign == MaxPid + 1
Threads == {"ui", "auto"}
Other(t) == IF t = "ui" THEN "auto" ELSE "ui"

\* now_epoch_secs() when a backend is spawned.  Time enters the program through the
\* difference between a record's started_at and a creation time only, and a backend
\* passes is_pid_file_valid whatever that difference: the model starts every backend
\* at Epoch and lets an unrelated process be created at Epoch + d
Epoch == 1
\* a pid is reused within the tolerance, or beyond it
ReuseDelays == {d \in 0..MaxDelay : d >= CreateTimeTolerance}
\* get_process_create_time: None
NoTime == 0
\* creation times of the unrelated process that reuses a pid; the operating system
\* may refuse to tell the creation time of a process that is not the user's
ReuseTimes == {NoTime} \cup {Epoch + d : d \in ReuseDelays}

\* ages (seconds) a heartbeat timestamp is found to have when it is read: the oldest
\* that startup_reconcile does not call stale, and the first it does
NoHb == -1
HbAges == {ReconcileStaleSecs, ReconcileStaleSecs + 1}
FreshHb == ReconcileStaleSecs
\* a heartbeat file that serde_json cannot parse as HeartbeatData
BadHb == -2

\* read_workspace_api_port: the .env that ensure_workspace_scaffold writes sets no
\* API_PORT (None, as 0)
read_workspace_api_port(ws) == 0
EffectivePort(ws) ==
    IF read_workspace_api_port(ws) = 0 THEN DefaultPort ELSE read_workspace_api_port(ws)
Ports == {EffectivePort(w) : w \in Workspaces}

----------------------------------------------------------------------------
(* The run directory *)

\* service_pid_file: the file name of a workspace's PID record
service_pid_file(ws) == <<Prefix>> \o ws \o <<PidSuffix>>

RECURSIVE trim_start_matches(_, _)
trim_start_matches(s, tok) ==
    IF Len(s) > 0 /\ Head(s) = tok THEN trim_start_matches(Tail(s), tok) ELSE s

RECURSIVE trim_end_matches(_, _)
trim_end_matches(s, tok) ==
    IF Len(s) > 0 /\ s[Len(s)] = tok
    THEN trim_end_matches(SubSeq(s, 1, Len(s) - 1), tok) ELSE s

\* list_service_pids: the workspace id it derives from a PID file name
WorkspaceOfFileName(name) == trim_end_matches(trim_start_matches(name, Prefix), PidSuffix)

\* contents of a PID file
Absent == [shape |-> "absent", pid |-> 0, started_by |-> "", started_at |-> 0]
Garbage == [shape |-> "garbage", pid |-> 0, started_by |-> "", started_at |-> 0]
JsonRecord(pid, by, at) == [shape |-> "json", pid |-> pid, started_by |-> by, started_at |-> at]
BareInteger(n) == [shape |-> "int", pid |-> n, started_by |-> "", started_at |-> 0]

\* PidFileData, None as NoData
NoData == [pid |-> 0, started_by |-> "", started_at |-> 0]
PidFileData(pid, by, at) == [pid |-> pid, started_by |-> by, started_at |-> at]
\* (mutation) a missing started_by field is left empty
started_by_is_left_empty == ""

default_started_by == "tauri"

\* (mutation) a reader that takes whatever it cannot parse for a record of pid 1
read_guesses_a_pid(F, ws) ==
    IF ws \notin DOMAIN F \/ F[ws].shape = "absent" THEN NoData
    ELSE PidFileData(IF F[ws].pid > 0 THEN F[ws].pid ELSE 1, "tauri", F[ws].started_at)

\* read_pid_file over a file table F (workspace -> content); a workspace id
\* that names no file of the model reads as a missing file
read_pid_file(F, ws) ==
    IF ws \notin DOMAIN F THEN NoData
    ELSE LET c == F[ws] IN
         IF c.shape = "json" /\ c.pid > 0
         THEN PidFileData(c.pid,
                          IF c.started_by = "" THEN default_started_by ELSE c.started_by,
                          c.started_at)
         ELSE IF c.shape = "int" /\ c.pid > 0
         THEN PidFileData(c.pid, "tauri", 0)
         ELSE NoData

\* write_pid_file
write_pid_file(pid, by, t) == JsonRecord(pid, by, t)

\* list_service_pids: one entry (workspace id derived from the file name, pid) per
\* PID file of the run directory that read_pid_file can read under the derived id
list_service_pids(F) ==
    { [workspace_id |-> WorkspaceOfFileName(service_pid_file(w)),
       pid |-> read_pid_file(F, WorkspaceOfFileName(service_pid_file(w))).pid,
       pid_file |-> w,
       started_by |-> read_pid_file(F, WorkspaceOfFileName(service_pid_file(w))).started_by]
      : w \in { x \in Workspaces :
                  /\ F[x].shape # "absent"
                  /\ read_pid_file(F, WorkspaceOfFileName(service_pid_file(x))) # NoData } }

----------------------------------------------------------------------------
(* The operating system *)

NoProc == [st |-> "none", oa |-> FALSE, ctime |-> 0, child |-> FALSE, ws |-> <<>>]
\* a backend: its command line carries the service signature
Backend(ws, t, child) == [st |-> "alive", oa |-> TRUE, ctime |-> t, child |-> child, ws |-> ws]
\* an unrelated process that was given a free pid
Unrelated(t) == [st |-> "alive", oa |-> FALSE, ctime |-> t, child |-> FALSE, ws |-> <<>>]

FreePids(P) == {p \in Pids : P[p].st = "none"}

\* (mutation) a liveness probe that finds a process under every pid
probe_finds_everything(P, pid) == TRUE

\* (mutation) a liveness probe that never finds a process
probe_finds_nothing(P, pid) == FALSE

\* (mutation) a liveness probe without the guard for pid 0
probe_without_zero_guard(P, pid) == pid \in Pids => P[pid].st # "none"

\* is_pid_running: the pid exists in the process table (signal 0 / OpenProcess);
\* an exited child that has not been waited for still exists
is_pid_running(P, pid) == pid # 0 /\ pid \in Pids /\ P[pid].st # "none"

\* the process of that pid executes (it has not exited)
Alive(P, pid) == pid \in Pids /\ P[pid].st = "alive"

\* (mutation) an identity check that takes every running process for a backend
signature_is_assumed(P, pid) == TRUE

\* is_openakita_process
is_openakita_process(P, pid) == pid # 0 /\ is_pid_running(P, pid) /\ P[pid].oa

AbsDiff(a, b) == IF a > b THEN a - b ELSE b - a

\* get_process_create_time
get_process_create_time(P, pid) == P[pid].ctime

\* is_pid_file_valid
is_pid_file_valid(P, data) ==
    IF ~is_pid_running(P, data.pid) THEN FALSE
    ELSE IF data.started_at = 0 THEN is_openakita_process(P, data.pid)
    ELSE IF get_process_create_time(P, data.pid) # NoTime
         THEN IF AbsDiff(data.started_at, get_process_create_time(P, data.pid))
                   > CreateTimeTolerance
              THEN is_openakita_process(P, data.pid)
              ELSE TRUE
         ELSE is_openakita_process(P, data.pid)

\* (mutation) a heartbeat is stale from the threshold on
stale_from_the_threshold(H, ws, max_age_secs) ==
    IF ws \notin DOMAIN H \/ H[ws] < 0 THEN "none"
    ELSE IF H[ws] >= max_age_secs THEN "stale" ELSE "fresh"

\* is_heartbeat_stale: None as "none", Some(true) as "stale", Some(false) as "fresh"
is_heartbeat_stale(H, ws, max_age_secs) ==
    IF ws \notin DOMAIN H \/ H[ws] \in {NoHb, BadHb} THEN "none"
    ELSE IF H[ws] > max_age_secs THEN "stale" ELSE "fresh"

\* build_service_status: the heartbeat_stale field of the ServiceStatus
heartbeat_stale(H, ws) ==
    IF ws \notin DOMAIN H \/ H[ws] \in {NoHb, BadHb} THEN "none"
    ELSE IF H[ws] > StatusStaleSecs THEN "stale" ELSE "fresh"

\* (mutation) a port check that finds every port free
port_is_taken_for_free(O, port) == TRUE

\* check_port_available
check_port_available(O, port) == O[port] = 0


\* the process p exits.  A child that nobody has waited for stays in the process
\* table: always while the controller holds its Child handle (held), and, when the
\* handle was dropped, on POSIX (zombie) but not on Windows (z chooses)
ExitProc(P, O, p, held, z) ==
    LET gone == ~(P[p].child /\ (p \in held \/ z)) IN
    [proc  |-> [P EXCEPT ![p] = IF gone THEN NoProc ELSE [@ EXCEPT !.st = "zombie"]],
     owner |-> [q \in DOMAIN O |-> IF O[q] = p THEN 0 ELSE O[q]]]

\* Child::try_wait / Child::wait have collected the exit status of p
Reap(P, p) == [P EXCEPT ![p] = IF @.st = "zombie" THEN NoProc ELSE @]

\* what the operating system and the backend may answer during one stop sequence:
\*   http: the POST /api/shutdown fails, or is accepted by the listener, which then
\*         exits within the grace period or hangs
\*   kill: the killed process is gone within the confirmation period ("dies"),
\*         survives it, or had exited between the liveness probe and the kill and
\*         kill_pid reports that as an error ("raced_err", the POSIX branch; the
\*         Windows branch reports success, which is "dies")
\*   z:    see ExitProc
GspChoices ==
    [http : {"fail", "exits", "hangs"},
     kill : {"dies", "survives", "raced_err"},
     z    : BOOLEAN]

\* kill_pid(pid) in process table P and port table O: Ok or Err, and the tables
\* afterwards.  Nothing is done for pid 0.  A pid that names no process makes
\* `kill` fail (POSIX branch, "raced_err") or is reported as success (Windows)
kill_pid(P, O, pid, held, ch) ==
    IF pid = 0 THEN [ok |-> TRUE, proc |-> P, owner |-> O]
    ELSE IF ~Alive(P, pid)
    THEN [ok |-> is_pid_running(P, pid) \/ ch.kill # "raced_err", proc |-> P, owner |-> O]
    ELSE LET s == IF ch.kill # "survives" THEN ExitProc(P, O, pid, held, ch.z)
                  ELSE [proc |-> P, owner |-> O]
         IN  [ok |-> ch.kill # "raced_err", proc |-> s.proc, owner |-> s.owner]

\* graceful_stop_pid(pid, port) in process table P and port table O.
\* Result: ok (Ok(()) or Err), the tables afterwards, and what was sent:
\* "shutdown" (the HTTP request was issued), "kill" (kill_pid was called)
graceful_stop_pid(P, O, pid, port, held, ch) ==
    IF ~is_pid_running(P, pid)
    THEN [ok |-> TRUE, proc |-> P, owner |-> O, sent |-> {}]
    ELSE
    LET listener == O[port]
        api_ok == /\ listener \in Pids
                  /\ Alive(P, listener)
                  /\ P[listener].oa
                  /\ ch.http # "fail"
        s1 == IF api_ok /\ ch.http = "exits"
              THEN ExitProc(P, O, listener, held, ch.z)
              ELSE [proc |-> P, owner |-> O]
    IN  IF api_ok /\ ~is_pid_running(s1.proc, pid)
        THEN [ok |-> TRUE, proc |-> s1.proc, owner |-> s1.owner, sent |-> {"shutdown"}]
        ELSE
        LET k == kill_pid(s1.proc, s1.owner, pid, held, ch)
        IN  [ok    |-> k.ok /\ ~is_pid_running(k.proc, pid),
             proc  |-> k.proc,
             owner |-> k.owner,
             sent  |-> {"shutdown", "kill"}]

----------------------------------------------------------------------------
(* The controller's in-memory state *)

NoMc == [workspace_id |-> <<>>, pid |-> 0]
ManagedProcess(ws, pid) == [workspace_id |-> ws, pid |-> pid]

\* pids whose Child handle the controller holds: in MANAGED_CHILD, or in the
\* local `child` of a Start between spawn and the store into MANAGED_CHILD
HeldPids ==
    (IF mc = NoMc THEN {} ELSE {mc.pid})
      \cup {thr[t].pid : t \in {x \in Threads : thr[x].pc = "s_store"}}

Idle == [pc |-> "idle", ws |-> <<>>, pid |-> 0, stopped |-> FALSE]

\* what an operation returned
NoRet == [op |-> "none", t |-> "", ws |-> <<>>, ok |-> TRUE, running |-> FALSE, pid |-> 0,
          err |-> "", tracked |-> 0, sent |-> {}, pre |-> <<>>, stopped |-> {}, via |-> ""]
Returned(op, t, ws, ok, running, pid, err, tracked, sent) ==
    [op |-> op, t |-> t, ws |-> ws, ok |-> ok, running |-> running, pid |-> pid,
     err |-> err, tracked |-> tracked, sent |-> sent, pre |-> <<>>, stopped |-> {}, via |-> ""]

\* the same, with the path the operation took
ReturnedVia(via, op, t, ws, ok, running, pid, err, tracked, sent) ==
    [Returned(op, t, ws, ok, running, pid, err, tracked, sent) EXCEPT !.via = via]

\* the pid the controller tracks for ws: the handle's if it holds one for ws,
\* else the PID record's, else 0
TrackedPid(ws) ==
    IF mc # NoMc /\ mc.workspace_id = ws THEN mc.pid ELSE read_pid_file(pidFile, ws).pid


----------------------------------------------------------------------------
(* Initial state: a fresh installation, the controller process just launched *)

Init ==
    /\ phase = "boot"
    /\ proc = [p \in Pids |-> NoProc]
    /\ portOwner = [q \in Ports |-> 0]
    /\ pidFile = [w \in Workspaces |-> Absent]
    /\ lockFile = [w \in Workspaces |-> FALSE]
    /\ hbFile = [w \in Workspaces |-> NoHb]
    /\ mc = NoMc
    /\ autoFlag = FALSE
    /\ thr = [t \in Threads |-> Idle]
    /\ ret = NoRet

----------------------------------------------------------------------------
(* The environment: the operating system, the backends, other programs *)

ctl == <<phase, mc, autoFlag, thr>>

\* a process exits on its own (crash, misconfiguration, end of work)
ProcExit(p) ==
    /\ Alive(proc, p)
    /\ \E z \in BOOLEAN :
         LET s == ExitProc(proc, portOwner, p, HeldPids, z) IN
         /\ proc' = s.proc
         /\ portOwner' = s.owner
    /\ ret' = NoRet
    /\ UNCHANGED <<pidFile, lockFile, hbFile, ctl>>

\* the operating system gives a free pid to an unrelated process (PID reuse)
UnrelatedSpawn(p) ==
    /\ p \in FreePids(proc)
    /\ \E w \in Workspaces : read_pid_file(pidFile, w).pid = p
    /\ \E c \in ReuseTimes : proc' = [proc EXCEPT ![p] = Unrelated(c)]
    /\ ret' = NoRet
    /\ UNCHANGED <<portOwner, pidFile, lockFile, hbFile, ctl>>

\* a backend binds its API port
BackendListen(p) ==
    /\ Alive(proc, p)
    /\ proc[p].oa
    /\ portOwner[EffectivePort(proc[p].ws)] = 0
    /\ portOwner' = [portOwner EXCEPT ![EffectivePort(proc[p].ws)] = p]
    /\ ret' = NoRet
    /\ UNCHANGED <<proc, pidFile, lockFile, hbFile, ctl>>

\* a backend that its workspace's PID record names writes its heartbeat file
HeartbeatWrite(p) ==
    /\ Alive(proc, p)
    /\ proc[p].oa
    /\ read_pid_file(pidFile, proc[p].ws).pid = p
    /\ hbFile[proc[p].ws] # FreshHb
    /\ hbFile' = [hbFile EXCEPT ![proc[p].ws] = FreshHb]
    /\ ret' = NoRet
    /\ UNCHANGED <<proc, portOwner, pidFile, lockFile, ctl>>

\* the heartbeat file of a tracked process is not rewritten while time passes
HeartbeatAge(w) ==
    /\ hbFile[w] # NoHb
    /\ is_pid_running(proc, read_pid_file(pidFile, w).pid)
    /\ \E a \in HbAges : a > hbFile[w] /\ hbFile' = [hbFile EXCEPT ![w] = a]
    /\ ret' = NoRet
    /\ UNCHANGED <<proc, portOwner, pidFile, lockFile, ctl>>

\* another program listens on a port, or stops listening
ForeignListen(q) ==
    /\ portOwner[q] \in {0, Foreign}
    /\ portOwner' = [portOwner EXCEPT ![q] = IF @ = 0 THEN Foreign ELSE 0]
    /\ ret' = NoRet
    /\ UNCHANGED <<proc, pidFile, lockFile, hbFile, ctl>>

\* the controller process dies (crash, kill, power loss) and is launched again:
\* its memory and threads are gone, the files stay, its children live on as
\* orphans and the exited ones are collected by the operating system
ControllerRestart ==
    /\ phase = "up"
    /\ phase' = "boot"
    /\ mc' = NoMc
    /\ autoFlag' = FALSE
    /\ thr' = [t \in Threads |-> Idle]
    /\ proc' = [p \in Pids |->
                  IF proc[p].st = "zombie" THEN NoProc
                  ELSE IF proc[p].st = "alive" THEN [proc[p] EXCEPT !.child = FALSE]
                  ELSE proc[p]]
    /\ ret' = NoRet
    /\ UNCHANGED <<portOwner, pidFile, lockFile, hbFile>>

\* Windows: an exited child whose handle the controller has dropped leaves the
\* process table
ZombieVanish(p) ==
    /\ proc[p].st = "zombie"
    /\ p \notin HeldPids
    /\ proc' = [proc EXCEPT ![p] = NoProc]
    /\ ret' = NoRet
    /\ UNCHANGED <<portOwner, pidFile, lockFile, hbFile, ctl>>

Environment ==
    \/ \E p \in Pids : ProcExit(p)
    \/ \E p \in Pids : ZombieVanish(p)
    \/ \E p \in Pids : UnrelatedSpawn(p)
    \/ \E p \in Pids : BackendListen(p)
    \/ \E p \in Pids : HeartbeatWrite(p)
    \/ \E w \in Workspaces : HeartbeatAge(w)
    \/ \E q \in Ports : ForeignListen(q)
    \/ ControllerRestart


----------------------------------------------------------------------------
(* openakita_service_start, one action per stretch between two accesses to  *)
(* shared state that another thread can interleave with                     *)

\* (mutation) a removal that leaves the file
file_is_kept(F, ws) == F

\* (mutation) a removal that leaves the heartbeat file
heartbeat_is_kept(H, ws) == H

\* fs::remove_file of a PID file; remove_heartbeat_file
remove_file(F, ws) == IF ws \in DOMAIN F THEN [F EXCEPT ![ws] = Absent] ELSE F
remove_heartbeat_file(H, ws) == IF ws \in DOMAIN H THEN [H EXCEPT ![ws] = NoHb] ELSE H

files == <<pidFile, lockFile, hbFile>>
os == <<proc, portOwner>>

\* the instance is Stopped: the process table holds no backend of ws
InstanceStopped(ws) == \A p \in Pids : ~(is_pid_running(proc, p) /\ proc[p].oa /\ proc[p].ws = ws)

InStart(t) == thr[t].pc \notin {"idle", "s_begin"}

\* (mutation) the auto-start thread ends without clearing AUTO_START_IN_PROGRESS
flag_is_left_set(t, T) ==
    /\ thr' = IF InStart(Other(t)) THEN [T EXCEPT ![t].pc = "idle"]
              ELSE [x \in Threads |-> IF T[x].pc = "s_begin" THEN T[x] ELSE Idle]
    /\ autoFlag' = autoFlag

\* the thread leaves openakita_service_start, T being the threads' bookkeeping by
\* then; the auto-start thread then clears AUTO_START_IN_PROGRESS and ends.  The
\* history of a Start is kept while the other thread is inside its own
Leave(t, T) ==
    /\ thr' = IF InStart(Other(t)) THEN [T EXCEPT ![t].pc = "idle"]
              ELSE [x \in Threads |-> IF T[x].pc = "s_begin" THEN T[x] ELSE Idle]
    /\ autoFlag' = IF t = "auto" THEN FALSE ELSE autoFlag

\* the thread goes on inside openakita_service_start
Goto(t, T, to) ==
    /\ thr' = [T EXCEPT ![t].pc = to]
    /\ UNCHANGED autoFlag

\* (mutation) a guard that does not remove the lock file
lock_is_left(L, ws) == L

\* LockGuard::drop
release_start_lock(L, ws) == [L EXCEPT ![ws] = FALSE]

\* (mutation) a Start that skips the "already running" check
check_is_skipped(M, P, F, H, w) == 0

\* the "already running" check of openakita_service_start over the handle M, the
\* process table P and the PID files F: the pid it returns as running, 0 when the
\* Start goes on
AlreadyRunning(M, P, F, H, w) ==
    IF M # NoMc /\ M.workspace_id = w /\ Alive(P, M.pid) THEN M.pid
    ELSE LET data == read_pid_file(F, w) IN
         IF /\ data # NoData
            /\ is_pid_file_valid(IF M # NoMc /\ M.workspace_id = w THEN Reap(P, M.pid) ELSE P, data)
            /\ is_heartbeat_stale(H, w, ReconcileStaleSecs) # "stale"
         THEN data.pid
         ELSE 0

\* entry: removal of the old heartbeat file, then the "already running" check,
\* of the handle (under the MANAGED_CHILD mutex) and of the PID file
StartCheck(t, w) ==
    /\ \/ t = "ui" /\ phase = "up" /\ thr[t].pc = "idle"
       \/ t = "auto" /\ thr[t].pc = "s_begin" /\ thr[t].ws = w
    /\ LET T == [thr EXCEPT ![t] = [pc |-> "s_check", ws |-> w, pid |-> 0,
                                    stopped |-> InstanceStopped(w)],
                            ![Other(t)] = IF InStart(Other(t)) THEN @ ELSE
                                          IF @.pc = "s_begin" THEN @ ELSE Idle]
           has_handle == mc # NoMc /\ mc.workspace_id = w
           H1 == remove_heartbeat_file(hbFile, w)
           running == AlreadyRunning(mc, proc, pidFile, H1, w)
       IN
       /\ hbFile' = H1
       /\ IF has_handle /\ running = mc.pid
          THEN \* the handle's child has not exited
               /\ Leave(t, T)
               /\ ret' = ReturnedVia("handle", "start", t, w, TRUE, TRUE, mc.pid, "", 0, {})
               /\ UNCHANGED <<mc, proc, portOwner, pidFile>>
          ELSE
          \* an exited child's handle is dropped (try_wait has collected the child)
          LET P1 == IF has_handle THEN Reap(proc, mc.pid) ELSE proc
              data == read_pid_file(pidFile, w)
          IN  /\ mc' = IF has_handle THEN NoMc ELSE mc
              /\ IF running # 0
                 THEN \* the PID file names a valid process
                      /\ Leave(t, T)
                      /\ ret' = ReturnedVia("record", "start", t, w, TRUE, TRUE, data.pid, "", 0, {})
                      /\ proc' = P1
                      /\ UNCHANGED <<portOwner, pidFile>>
                 ELSE IF data # NoData /\ is_pid_file_valid(P1, data)
                 THEN \* valid, heartbeat stale: stop it, remove the files, go on
                      \E r \in {graceful_stop_pid(P1, portOwner, data.pid, EffectivePort(w),
                                                  IF has_handle THEN HeldPids \ {mc.pid}
                                                  ELSE HeldPids, ch) : ch \in GspChoices} :
                        /\ proc' = r.proc
                        /\ portOwner' = r.owner
                        /\ pidFile' = remove_file(pidFile, w)
                        /\ Goto(t, T, "s_lock")
                        /\ ret' = NoRet
                 ELSE \* no record, or a record that is not valid: remove the files, go on
                      /\ pidFile' = IF data # NoData THEN remove_file(pidFile, w) ELSE pidFile
                      /\ proc' = P1
                      /\ Goto(t, T, "s_lock")
                      /\ ret' = NoRet
                      /\ UNCHANGED portOwner
    /\ UNCHANGED <<phase, lockFile>>

\* (mutation) create instead of create_new: an existing lock file is no obstacle
lock_is_taken_over(L, ws) == TRUE

\* try_acquire_start_lock: create_new fails when the file exists
try_acquire_start_lock(L, ws) == ~L[ws]

\* what can fail between the lock and the spawn besides the port:
\* ensure_workspace_scaffold, the missing executable, the log file
PreSpawnFailures == {"scaffold", "no_executable", "log"}

\* the start lock, then scaffold, port check with its bounded wait, executable
\* and log file
StartLock(t) ==
    /\ thr[t].pc = "s_lock"
    /\ LET w == thr[t].ws IN
       IF ~try_acquire_start_lock(lockFile, w)
       THEN /\ Leave(t, thr)
            /\ ret' = ReturnedVia("nolock", "start", t, w, FALSE, FALSE, 0, "in_progress", 0, {})
            /\ UNCHANGED lockFile
       ELSE \/ \E e \in PreSpawnFailures :
                 /\ e # "scaffold" => check_port_available(portOwner, EffectivePort(w))
                 /\ Leave(t, thr)
                 /\ lockFile' = release_start_lock(lockFile, w)
                 /\ ret' = ReturnedVia("locked", "start", t, w, FALSE, FALSE, 0, e, 0, {})
            \/ \* the port is taken during the whole wait; the error names it
               /\ ~check_port_available(portOwner, EffectivePort(w))
               /\ Leave(t, thr)
               /\ lockFile' = release_start_lock(lockFile, w)
               /\ ret' = ReturnedVia("locked", "start", t, w, FALSE, FALSE, 0, "port",
                                      EffectivePort(w), {})
            \/ /\ check_port_available(portOwner, EffectivePort(w))
               /\ lockFile' = [lockFile EXCEPT ![w] = TRUE]
               /\ Goto(t, thr, "s_spawn")
               /\ ret' = NoRet
    /\ UNCHANGED <<phase, os, pidFile, hbFile, mc>>

\* cmd.spawn() and write_pid_file
StartSpawn(t) ==
    /\ thr[t].pc = "s_spawn"
    /\ LET w == thr[t].ws IN
       \/ /\ Leave(t, thr)
          /\ lockFile' = release_start_lock(lockFile, w)
          /\ ret' = ReturnedVia("locked", "start", t, w, FALSE, FALSE, 0, "spawn", 0, {})
          /\ UNCHANGED <<proc, pidFile>>
       \/ \E p \in FreePids(proc) :
            /\ proc' = [proc EXCEPT ![p] = Backend(w, Epoch, TRUE)]
            /\ \/ /\ pidFile' = [pidFile EXCEPT ![w] = write_pid_file(p, "tauri", Epoch)]
                  /\ Goto(t, [thr EXCEPT ![t].pid = p], "s_store")
                  /\ ret' = NoRet
                  /\ UNCHANGED lockFile
               \/ /\ Leave(t, [thr EXCEPT ![t].pid = p])
                  /\ lockFile' = release_start_lock(lockFile, w)
                  /\ ret' = ReturnedVia("locked", "start", t, w, FALSE, FALSE, p, "write_pid", 0, {})
                  /\ UNCHANGED pidFile
    /\ UNCHANGED <<phase, portOwner, hbFile, mc>>

\* the new handle replaces whatever MANAGED_CHILD held
StartStore(t) ==
    /\ thr[t].pc = "s_store"
    /\ mc' = ManagedProcess(thr[t].ws, thr[t].pid)
    /\ Goto(t, thr, "s_confirm")
    /\ ret' = NoRet
    /\ UNCHANGED <<phase, os, files>>

\* the liveness re-check 500 ms after the spawn
StartConfirm(t) ==
    /\ thr[t].pc = "s_confirm"
    /\ LET w == thr[t].ws
           pid == thr[t].pid
       IN  IF ~is_pid_running(proc, pid)
           THEN /\ mc' = IF mc # NoMc /\ mc.pid = pid THEN NoMc ELSE mc
                /\ pidFile' = remove_file(pidFile, w)
                /\ ret' = ReturnedVia("locked", "start", t, w, FALSE, FALSE, pid, "exited", 0, {})
           ELSE /\ ret' = ReturnedVia("locked", "start", t, w, TRUE, TRUE, pid, "", 0, {})
                /\ UNCHANGED <<mc, pidFile>>
    /\ Leave(t, thr)
    /\ lockFile' = release_start_lock(lockFile, thr[t].ws)
    /\ UNCHANGED <<phase, os, hbFile>>

Start(t) ==
    \/ \E w \in Workspaces : StartCheck(t, w)
    \/ StartLock(t)
    \/ StartSpawn(t)
    \/ StartStore(t)
    \/ StartConfirm(t)


----------------------------------------------------------------------------
(* Commands of the main thread other than Start: each runs to its return   *)
(* as one action; what the operating system answers meanwhile is chosen    *)
(* inside it                                                               *)

UiIdle == phase = "up" /\ thr["ui"].pc = "idle"

\* the history of the main thread's last Start ends with its next command
UiForget == thr' = [thr EXCEPT !["ui"] = Idle]

\* openakita_service_stop
Stop(w) ==
    /\ UiIdle
    /\ IF mc # NoMc /\ mc.workspace_id = w
       THEN \* 1. the handle: stop sequence, then Child::kill and Child::wait
            \E r \in {graceful_stop_pid(proc, portOwner, mc.pid, EffectivePort(w), HeldPids, ch)
                        : ch \in GspChoices} :
            LET s == IF is_pid_running(r.proc, mc.pid)
                     THEN ExitProc(Reap(r.proc, mc.pid), r.owner, mc.pid, {}, FALSE)
                     ELSE [proc |-> r.proc, owner |-> r.owner]
            IN  /\ proc' = s.proc
                /\ portOwner' = s.owner
                /\ mc' = NoMc
                /\ pidFile' = remove_file(pidFile, w)
                /\ hbFile' = remove_heartbeat_file(hbFile, w)
                /\ ret' = ReturnedVia("handle", "stop", "ui", w, TRUE, FALSE, 0, "", mc.pid, r.sent)
       ELSE \* 2. the PID file
            \E r \in {graceful_stop_pid(proc, portOwner, read_pid_file(pidFile, w).pid,
                                          EffectivePort(w), HeldPids, ch) : ch \in GspChoices} :
            LET pid == read_pid_file(pidFile, w).pid
            IN  /\ proc' = r.proc
                /\ portOwner' = r.owner
                /\ mc' = mc
                /\ IF r.ok
                   THEN /\ pidFile' = remove_file(pidFile, w)
                        /\ hbFile' = remove_heartbeat_file(hbFile, w)
                        /\ ret' = ReturnedVia("record", "stop", "ui", w, TRUE, FALSE, 0, "", pid, r.sent)
                   ELSE /\ ret' = ReturnedVia("record", "stop", "ui", w, FALSE, FALSE, 0,
                                              "failed to stop service", pid, r.sent)
                        /\ UNCHANGED <<pidFile, hbFile>>
    /\ UiForget
    /\ UNCHANGED <<phase, lockFile, autoFlag>>

\* the `running` of the ServiceStatus openakita_service_status would return now
StatusRunning(ws) ==
    IF mc # NoMc /\ mc.workspace_id = ws
    THEN Alive(proc, mc.pid)
    ELSE /\ read_pid_file(pidFile, ws) # NoData
         /\ is_pid_file_valid(proc, read_pid_file(pidFile, ws))

\* (mutation) a Status that takes the pid from the PID file, handle or not
pid_of_the_record(ws) == read_pid_file(pidFile, ws).pid

\* and its `pid`
StatusPid(ws) ==
    IF ~StatusRunning(ws) THEN 0
    ELSE IF mc # NoMc /\ mc.workspace_id = ws THEN mc.pid
    ELSE read_pid_file(pidFile, ws).pid

\* openakita_service_status
Status(w) ==
    /\ UiIdle
    /\ LET running == StatusRunning(w)
           has_handle == mc # NoMc /\ mc.workspace_id = w
       IN  /\ ret' = ReturnedVia(IF has_handle THEN "handle" ELSE "record",
                                 "status", "ui", w, TRUE, running, StatusPid(w), "",
                                 TrackedPid(w), {})
           /\ IF has_handle
              THEN IF running
                   THEN UNCHANGED <<mc, proc, pidFile, hbFile>>
                   ELSE /\ mc' = NoMc
                        /\ proc' = Reap(proc, mc.pid)
                        /\ pidFile' = remove_file(pidFile, w)
                        /\ hbFile' = remove_heartbeat_file(hbFile, w)
              ELSE IF running \/ read_pid_file(pidFile, w) = NoData
                   THEN UNCHANGED <<mc, proc, pidFile, hbFile>>
                   ELSE /\ pidFile' = remove_file(pidFile, w)
                        /\ hbFile' = remove_heartbeat_file(hbFile, w)
                        /\ UNCHANGED <<mc, proc>>
    /\ UiForget
    /\ UNCHANGED <<phase, portOwner, lockFile, autoFlag>>

\* openakita_check_pid_alive: Ok(alive) as `running`
CheckPidAlive(w) ==
    /\ UiIdle
    /\ LET has_handle == mc # NoMc /\ mc.workspace_id = w
           data == read_pid_file(pidFile, w)
           Answer(via, alive, sent) ==
               ReturnedVia(via, "check_pid_alive", "ui", w, TRUE, alive, 0, "",
                           TrackedPid(w), sent)
       IN  IF has_handle
           THEN IF Alive(proc, mc.pid)
                THEN /\ ret' = Answer("handle", TRUE, {})
                     /\ UNCHANGED <<mc, os, pidFile, hbFile>>
                ELSE /\ mc' = NoMc
                     /\ proc' = Reap(proc, mc.pid)
                     /\ pidFile' = remove_file(pidFile, w)
                     /\ hbFile' = remove_heartbeat_file(hbFile, w)
                     /\ ret' = Answer("handle", FALSE, {})
                     /\ UNCHANGED portOwner
           ELSE IF data = NoData
           THEN /\ ret' = Answer("record", FALSE, {})
                /\ UNCHANGED <<mc, os, pidFile, hbFile>>
           ELSE IF ~is_pid_running(proc, data.pid) \/ ~is_openakita_process(proc, data.pid)
           THEN \* dead, or the pid was reused: the files are removed
                /\ pidFile' = remove_file(pidFile, w)
                /\ hbFile' = remove_heartbeat_file(hbFile, w)
                /\ ret' = Answer("record", FALSE, {})
                /\ UNCHANGED <<mc, os>>
           ELSE IF is_heartbeat_stale(hbFile, w, ReconcileStaleSecs) = "stale"
           THEN \* the stop sequence, its result ignored, then the files are removed
                \E r \in {graceful_stop_pid(proc, portOwner, data.pid, EffectivePort(w),
                                            HeldPids, ch) : ch \in GspChoices} :
                  /\ proc' = r.proc
                  /\ portOwner' = r.owner
                  /\ pidFile' = remove_file(pidFile, w)
                  /\ hbFile' = remove_heartbeat_file(hbFile, w)
                  /\ ret' = Answer("record", FALSE, r.sent)
                  /\ UNCHANGED mc
           ELSE /\ ret' = Answer("record", TRUE, {})
                /\ UNCHANGED <<mc, os, pidFile, hbFile>>
    /\ UiForget
    /\ UNCHANGED <<phase, lockFile, autoFlag>>


----------------------------------------------------------------------------
(* Controller startup: the setup closure of main() *)

\* the sequences that enumerate a finite set, each element once
Orders(S) == {f \in [1..Cardinality(S) -> S] : \A i, j \in 1..Cardinality(S) : f[i] = f[j] => i = j}


\* startup_reconcile, step 2: the loop over the entries of list_service_pids.
\* st: the files, the operating system, and what the loop did so far
\* (stopped: the pids it ran the stop sequence on; sent: what that sent)
RECURSIVE ReconcileEntries(_, _, _)
ReconcileEntries(order, st, ch) ==
    IF order = <<>> THEN st
    ELSE
    LET w == Head(order)
        data == read_pid_file(st.pidFile, w)
        next ==
          IF data = NoData THEN st
          ELSE IF ~is_pid_file_valid(st.proc, data)
          THEN [st EXCEPT !.pidFile = remove_file(@, w),
                          !.hbFile = remove_heartbeat_file(@, w)]
          ELSE IF is_heartbeat_stale(st.hbFile, w, ReconcileStaleSecs) = "stale"
          THEN LET port == IF w \in Workspaces THEN EffectivePort(w) ELSE DefaultPort
                   r == graceful_stop_pid(st.proc, st.owner, data.pid, port, {}, ch)
               IN  [pidFile |-> remove_file(st.pidFile, w),
                    hbFile  |-> remove_heartbeat_file(st.hbFile, w),
                    proc    |-> r.proc,
                    owner   |-> r.owner,
                    stopped |-> st.stopped \cup {data.pid},
                    sent    |-> st.sent \cup r.sent]
          ELSE st
    IN  ReconcileEntries(Tail(order), next, ch)

\* how startup_reconcile would find the PID record of ws: "none" (no readable
\* record), "invalid", "hung" (valid, heartbeat older than the threshold), "ok"
RecordClass(F, H, P, ws) ==
    LET data == read_pid_file(F, ws) IN
    IF data = NoData THEN "none"
    ELSE IF ~is_pid_file_valid(P, data) THEN "invalid"
    ELSE IF is_heartbeat_stale(H, ws, ReconcileStaleSecs) = "stale" THEN "hung"
    ELSE "ok"

\* (mutation) a reconciliation that also runs while the controller is up
reconcile_runs_again ==
    /\ phase \in {"boot", "up"}
    /\ phase' = IF phase = "boot" THEN "setup" ELSE phase
    /\ LET st0 == [pidFile |-> pidFile, hbFile |-> hbFile, proc |-> proc,
                   owner |-> portOwner, stopped |-> {}, sent |-> {}]
       IN  \E st \in {ReconcileEntries(order, st0, ch) :
                        order \in Orders({e.workspace_id : e \in list_service_pids(pidFile)}),
                        ch \in GspChoices} :
             /\ pidFile' = st.pidFile
             /\ hbFile' = st.hbFile
             /\ proc' = st.proc
             /\ portOwner' = st.owner
             /\ ret' = [Returned("reconcile", "ui", <<>>, TRUE, FALSE, 0, "", 0, st.sent)
                          EXCEPT !.stopped = st.stopped]
    /\ lockFile' = [w \in Workspaces |-> FALSE]
    /\ UNCHANGED <<mc, autoFlag, thr>>

\* startup_reconcile: every *.lock file is removed, then the loop
Reconcile ==
    /\ phase = "boot"
    /\ phase' = "setup"
    /\ LET st0 == [pidFile |-> pidFile, hbFile |-> hbFile, proc |-> proc,
                   owner |-> portOwner, stopped |-> {}, sent |-> {}]
       IN  \E st \in {ReconcileEntries(order, st0, ch) :
                        order \in Orders({e.workspace_id : e \in list_service_pids(pidFile)}),
                        ch \in GspChoices} :
             /\ pidFile' = st.pidFile
             /\ hbFile' = st.hbFile
             /\ proc' = st.proc
             /\ portOwner' = st.owner
             /\ ret' = [Returned("reconcile", "ui", <<>>, TRUE, FALSE, 0, "", 0, st.sent)
                          EXCEPT !.stopped = st.stopped,
                                 !.pre = [w \in Workspaces |->
                                            [class |-> RecordClass(pidFile, hbFile, proc, w),
                                             pid |-> read_pid_file(pidFile, w).pid,
                                             lock |-> lockFile[w]]]]
    /\ lockFile' = [w \in Workspaces |-> FALSE]
    /\ UNCHANGED <<mc, autoFlag, thr>>

\* the rest of setup when no backend is started automatically: no current
\* workspace is configured, or the health probe of its port succeeds
SetupNoAutoStart ==
    /\ phase = "setup"
    /\ phase' = "up"
    /\ ret' = NoRet
    /\ UNCHANGED <<os, files, mc, autoFlag, thr>>

\* the rest of setup when the health probe of the current workspace w fails:
\* AUTO_START_IN_PROGRESS is set and the auto-start thread is spawned
SetupAutoStart(w) ==
    /\ phase = "setup"
    /\ ~(portOwner[EffectivePort(w)] \in Pids /\ Alive(proc, portOwner[EffectivePort(w)])
         /\ proc[portOwner[EffectivePort(w)]].oa)
    /\ phase' = "up"
    /\ autoFlag' = TRUE
    /\ thr' = [thr EXCEPT !["auto"] = [Idle EXCEPT !.pc = "s_begin", !.ws = w]]
    /\ ret' = NoRet
    /\ UNCHANGED <<os, files, mc>>

----------------------------------------------------------------------------

Commands ==
    \/ Start("ui")
    \/ \E w \in Workspaces : Stop(w)
    \/ \E w \in Workspaces : Status(w)
    \/ \E w \in Workspaces : CheckPidAlive(w)

\* the main thread alone
Next ==
    \/ Environment
    \/ Reconcile
    \/ SetupNoAutoStart
    \/ Commands

Spec == Init /\ [][Next]_vars

\* one run of the controller, with the auto-start thread
NextAuto ==
    \/ \E p \in Pids : ProcExit(p)
    \/ \E p \in Pids : ZombieVanish(p)
    \/ \E p \in Pids : BackendListen(p)
    \/ \E p \in Pids : HeartbeatWrite(p)
    \/ Reconcile
    \/ SetupNoAutoStart
    \/ \E w \in Workspaces : SetupAutoStart(w)
    \/ Commands
    \/ Start("auto")

SpecAuto == Init /\ [][NextAuto]_vars

----------------------------------------------------------------------------
(* The controller launched on a run directory that an earlier version or a *)
(* crash has left behind: PID files of any shape, a lock file, a heartbeat  *)
(* file, and possibly a process under the pid the file names                *)

LeftFiles == {Absent, Garbage, JsonRecord(0, "tauri", Epoch), BareInteger(0), BareInteger(1)}
LeftProcs == {NoProc, Backend(WsA, Epoch, FALSE), Unrelated(NoTime)}
LeftHbs == {NoHb, BadHb, ReconcileStaleSecs + 1}

InitLegacy ==
    /\ phase = "boot"
    /\ \E s \in LeftProcs : proc = [p \in Pids |-> IF p = 1 THEN s ELSE NoProc]
    /\ portOwner = [q \in Ports |-> 0]
    /\ pidFile \in [Workspaces -> LeftFiles]
    /\ lockFile \in [Workspaces -> BOOLEAN]
    /\ \E h \in LeftHbs : hbFile = [w \in Workspaces |-> IF w = WsA THEN h ELSE NoHb]
    /\ mc = NoMc
    /\ autoFlag = FALSE
    /\ thr = [t \in Threads |-> Idle]
    /\ ret = NoRet

NextLegacy ==
    \/ \E p \in Pids : ProcExit(p)
    \/ \E p \in Pids : ZombieVanish(p)
    \/ \E p \in Pids : BackendListen(p)
    \/ \E q \in Ports : ForeignListen(q)
    \/ Reconcile
    \/ SetupNoAutoStart
    \/ Commands

SpecLegacy == InitLegacy /\ [][NextLegacy]_vars

----------------------------------------------------------------------------
(* The helper functions on their own: the run directory and the process    *)
(* table are drawn from the shapes below, and one function is applied to   *)
(* them; `ret.pre` holds what it returned, `ret.tracked` its argument      *)

\* what a PID file can hold: nothing, bytes that are neither JSON nor a number,
\* a JSON record (started_by "" and started_at 0: the field is missing), a bare
\* integer as older versions wrote it
FileSamples ==
    {Absent, Garbage}
    \cup {JsonRecord(n, by, at) : n \in 0..MaxPid, by \in {"", "tauri", "external"},
                                 at \in {0, Epoch}}
    \cup {BareInteger(n) : n \in 0..MaxPid}

\* what pid 1 can be: free, a backend (creation time readable or not, running or
\* exited and not yet collected), an unrelated process
ProcSamples ==
    {NoProc, Backend(WsA, Epoch, FALSE), Backend(WsA, NoTime, FALSE),
     [Backend(WsA, Epoch, TRUE) EXCEPT !.st = "zombie"]}
    \cup {Unrelated(c) : c \in ReuseTimes \cup {Epoch}}

\* what a heartbeat file can hold: nothing, unparseable bytes, or a timestamp of
\* the given age, around the two thresholds
HbSamples ==
    {NoHb, BadHb}
    \cup {StatusStaleSecs - 1, StatusStaleSecs, StatusStaleSecs + 1}
    \cup HbAges

InitPure ==
    /\ phase = "pure"
    /\ \E s \in ProcSamples : proc = [p \in Pids |-> IF p = 1 THEN s ELSE NoProc]
    /\ portOwner = [q \in Ports |-> 0]
    /\ \E f \in FileSamples : pidFile = [w \in Workspaces |-> IF w = WsA THEN f ELSE Absent]
    /\ lockFile = [w \in Workspaces |-> FALSE]
    /\ \E h \in HbSamples : hbFile = [w \in Workspaces |-> IF w = WsA THEN h ELSE NoHb]
    /\ mc = NoMc
    /\ autoFlag = FALSE
    /\ thr = [t \in Threads |-> Idle]
    /\ ret = NoRet

Answer(op, arg, val) == [NoRet EXCEPT !.op = op, !.ws = WsA, !.tracked = arg, !.pre = val]

Apply(op, arg, val) ==
    /\ ret.op = "none"
    /\ ret' = Answer(op, arg, val)
    /\ UNCHANGED <<phase, os, files, mc, autoFlag, thr>>

ApplyReadPidFile ==
    /\ phase = "pure"
    /\ Apply("read_pid_file", 0, read_pid_file(pidFile, WsA))

ApplyIsPidFileValid ==
    /\ phase = "pure"
    /\ read_pid_file(pidFile, WsA) # NoData
    /\ Apply("is_pid_file_valid", read_pid_file(pidFile, WsA).pid,
             is_pid_file_valid(proc, read_pid_file(pidFile, WsA)))

ApplyIsHeartbeatStale ==
    /\ phase = "pure"
    /\ Apply("is_heartbeat_stale", StatusStaleSecs,
             is_heartbeat_stale(hbFile, WsA, StatusStaleSecs))

ApplyBuildServiceStatus ==
    /\ phase = "pure"
    /\ Apply("build_service_status", 0, heartbeat_stale(hbFile, WsA))

ApplyIsPidRunning(pid) ==
    /\ phase = "pure"
    /\ Apply("is_pid_running", pid, is_pid_running(proc, pid))

ApplyIsOpenakitaProcess(pid) ==
    /\ phase = "pure"
    /\ Apply("is_openakita_process", pid, is_openakita_process(proc, pid))

ApplyKillPid(pid) ==
    /\ phase = "pure"
    /\ \E ch \in GspChoices : Apply("kill_pid", pid, kill_pid(proc, portOwner, pid, {}, ch))

NextPure ==
    \/ ApplyReadPidFile
    \/ ApplyIsPidFileValid
    \/ ApplyIsHeartbeatStale
    \/ ApplyBuildServiceStatus
    \/ \E pid \in 0..MaxPid : ApplyIsPidRunning(pid)
    \/ \E pid \in 0..MaxPid : ApplyIsOpenakitaProcess(pid)
    \/ \E pid \in 0..MaxPid : ApplyKillPid(pid)

SpecPure == InitPure /\ [][NextPure]_vars

----------------------------------------------------------------------------
(* openakita_service_stop step by step: one action per probe, request,     *)
(* signal or sleep of the stop sequence and of the waits around it, with   *)
(* the number of sleeps of the current wait in `polls`.  The main thread   *)
(* runs one Stop at a time; the handle mutex is held throughout the handle *)
(* path, so the handle is seen to go when the path ends.                   *)

\* graceful_stop_pid: sleeps of 200 ms after an accepted shutdown request
GracePolls == 25
\* graceful_stop_pid: sleeps of 200 ms after kill_pid
ConfirmPolls == 10
\* wait_for_port_free(port, 10_000): sleeps of 500 ms
PortPolls == 20
\* sleeps' worth of time the model follows a wait that has no limit of its own
MaxWait == 26

Stopping(pc, ws, pid, path, polls, sent, res) ==
    [pc |-> pc, ws |-> ws, pid |-> pid, stopped |-> FALSE, path |-> path,
     polls |-> polls, sent |-> sent, res |-> res]
NotStopping == Stopping("w_idle", <<>>, 0, "", 0, {}, "")

\* a controller that is up, with at most one backend: a child whose handle it
\* holds, or one it knows by the PID file only
InitWait ==
    /\ phase = "wait"
    /\ \E run \in BOOLEAN, handle \in BOOLEAN, rec \in BOOLEAN :
         /\ handle => run
         /\ proc = [p \in Pids |-> IF p = 1 /\ run THEN Backend(WsA, Epoch, handle) ELSE NoProc]
         /\ mc = IF handle THEN ManagedProcess(WsA, 1) ELSE NoMc
         /\ pidFile = [w \in Workspaces |->
                         IF w = WsA /\ (rec \/ handle) THEN write_pid_file(1, "tauri", Epoch)
                         ELSE Absent]
         /\ \E o \in {0, 1, Foreign} :
              /\ o = 1 => run
              /\ portOwner = [q \in Ports |-> IF q = EffectivePort(WsA) THEN o ELSE 0]
    /\ lockFile = [w \in Workspaces |-> FALSE]
    /\ hbFile \in [Workspaces -> {NoHb, FreshHb}]
    /\ autoFlag = FALSE
    /\ thr = [t \in Threads |-> IF t = "ui" THEN NotStopping ELSE Idle]
    /\ ret = NoRet

Me == thr["ui"]
At(pc) == phase = "wait" /\ Me.pc = pc
Step(S) == thr' = [thr EXCEPT !["ui"] = S]
MoveTo(pc) == Step([Me EXCEPT !.pc = pc, !.polls = 0])
Sleep == Step([Me EXCEPT !.polls = @ + 1])
GspDone(res) == Step([Me EXCEPT !.pc = "w_after_gsp", !.polls = 0, !.res = res])

\* openakita_service_stop is entered: the handle if it is this workspace's, else the
\* pid of the PID file, else nothing to stop
StopBegin(w) ==
    /\ At("w_idle")
    /\ LET path == IF mc # NoMc /\ mc.workspace_id = w THEN "handle"
                   ELSE IF read_pid_file(pidFile, w) # NoData THEN "record"
                   ELSE "none"
           pid == IF path = "handle" THEN mc.pid ELSE read_pid_file(pidFile, w).pid
       IN  Step(Stopping(IF path = "none" THEN "w_remove" ELSE "g_probe", w, pid, path, 0, {}, ""))
    /\ ret' = NoRet
    /\ UNCHANGED <<phase, mc, autoFlag, os, files>>

\* graceful_stop_pid: the first probe
GspProbe ==
    /\ At("g_probe")
    /\ IF ~is_pid_running(proc, Me.pid) THEN GspDone("ok") ELSE MoveTo("g_http")
    /\ UNCHANGED <<phase, mc, autoFlag, os, files, ret>>

\* graceful_stop_pid: POST /api/shutdown to the port, answered within 3 s or not
GspHttp ==
    /\ At("g_http")
    /\ LET listener == portOwner[EffectivePort(Me.ws)]
           can_answer == listener \in Pids /\ Alive(proc, listener) /\ proc[listener].oa
       IN  \E api_ok \in {FALSE, can_answer} :
             Step([Me EXCEPT !.pc = IF api_ok THEN "g_grace" ELSE "g_kill",
                             !.polls = 0, !.sent = @ \cup {"shutdown"}])
    /\ UNCHANGED <<phase, mc, autoFlag, os, files, ret>>

\* graceful_stop_pid: one turn of the loop after an accepted request
GspGrace ==
    /\ At("g_grace")
    /\ IF Me.polls = GracePolls THEN MoveTo("g_kill")
       ELSE IF ~is_pid_running(proc, Me.pid) THEN GspDone("ok")
       ELSE Sleep
    /\ UNCHANGED <<phase, mc, autoFlag, os, files, ret>>

\* graceful_stop_pid: the probe before the kill, and kill_pid
GspKill ==
    /\ At("g_kill")
    /\ IF ~is_pid_running(proc, Me.pid)
       THEN MoveTo("g_end") /\ UNCHANGED os
       ELSE \E ch \in GspChoices :
              LET k == kill_pid(proc, portOwner, Me.pid, HeldPids, ch)
              IN  /\ proc' = k.proc
                  /\ portOwner' = k.owner
                  /\ Step([Me EXCEPT !.pc = IF k.ok THEN "g_confirm" ELSE "w_after_gsp",
                                     !.polls = 0,
                                     !.sent = @ \cup {"kill"},
                                     !.res = IF k.ok THEN @ ELSE "err"])
    /\ UNCHANGED <<phase, mc, autoFlag, files, ret>>

\* graceful_stop_pid: one turn of the loop after the kill
GspConfirm ==
    /\ At("g_confirm")
    /\ IF Me.polls = ConfirmPolls \/ ~is_pid_running(proc, Me.pid) THEN MoveTo("g_end")
       ELSE Sleep
    /\ UNCHANGED <<phase, mc, autoFlag, os, files, ret>>

\* graceful_stop_pid: the last probe decides between Ok and Err
GspEnd ==
    /\ At("g_end")
    /\ GspDone(IF is_pid_running(proc, Me.pid) THEN "err" ELSE "ok")
    /\ UNCHANGED <<phase, mc, autoFlag, os, files, ret>>

\* openakita_service_stop after the stop sequence: the handle path ignores its
\* result and probes again, the PID-file path returns its error
StopAfterGsp ==
    /\ At("w_after_gsp")
    /\ IF Me.path = "handle"
       THEN /\ MoveTo(IF is_pid_running(proc, Me.pid) THEN "w_child_kill" ELSE "w_remove")
            /\ ret' = ret
       ELSE IF Me.res = "ok"
       THEN MoveTo("w_remove") /\ ret' = ret
       ELSE /\ Step(NotStopping)
            /\ ret' = ReturnedVia("record", "stop", "ui", Me.ws, FALSE, FALSE, 0,
                                  "failed to stop service", Me.pid, Me.sent)
    /\ UNCHANGED <<phase, mc, autoFlag, os, files>>

\* Child::kill, its result ignored: the child is killed, or the signal has no
\* effect yet (a process that is blocked in the kernel, a failed TerminateProcess)
ChildKill ==
    /\ At("w_child_kill")
    /\ \/ /\ Alive(proc, Me.pid)
          /\ LET s == ExitProc(proc, portOwner, Me.pid, HeldPids, TRUE)
             IN  proc' = s.proc /\ portOwner' = s.owner
       \/ UNCHANGED os
    /\ MoveTo("w_child_wait")
    /\ UNCHANGED <<phase, mc, autoFlag, files, ret>>

\* Child::wait: returns with the exit status once the child has exited, and
\* blocks for as long as it has not
ChildWait ==
    /\ At("w_child_wait")
    /\ IF ~Alive(proc, Me.pid)
       THEN /\ proc' = Reap(proc, Me.pid)
            /\ MoveTo("w_remove")
       ELSE /\ Me.polls < MaxWait
            /\ Sleep
            /\ proc' = proc
    /\ UNCHANGED <<phase, mc, autoFlag, portOwner, files, ret>>

\* the PID file is removed (and, on the PID-file path, the heartbeat file before
\* the wait for the port rather than after it)
StopRemove ==
    /\ At("w_remove")
    /\ pidFile' = remove_file(pidFile, Me.ws)
    /\ hbFile' = IF Me.path = "handle" THEN hbFile ELSE remove_heartbeat_file(hbFile, Me.ws)
    /\ MoveTo("w_port")
    /\ UNCHANGED <<phase, mc, autoFlag, os, lockFile, ret>>

\* wait_for_port_free: one turn of its loop; then Stop returns Ok
StopPort ==
    /\ At("w_port")
    /\ IF Me.polls = PortPolls \/ check_port_available(portOwner, EffectivePort(Me.ws))
       THEN /\ Step(NotStopping)
            /\ mc' = IF Me.path = "handle" THEN NoMc ELSE mc
            /\ hbFile' = remove_heartbeat_file(hbFile, Me.ws)
            /\ ret' = ReturnedVia(IF Me.path = "handle" THEN "handle" ELSE "record",
                                  "stop", "ui", Me.ws, TRUE, FALSE, 0, "", Me.pid, Me.sent)
       ELSE /\ Sleep
            /\ UNCHANGED <<mc, hbFile, ret>>
    /\ UNCHANGED <<phase, autoFlag, os, pidFile, lockFile>>

\* what runs beside a Stop: the backend exits (on the request, on the signal or on
\* its own), a port changes hands
NextWait ==
    \/ \E w \in Workspaces : StopBegin(w)
    \/ GspProbe
    \/ GspHttp
    \/ GspGrace
    \/ GspKill
    \/ GspConfirm
    \/ GspEnd
    \/ StopAfterGsp
    \/ ChildKill
    \/ ChildWait
    \/ StopRemove
    \/ StopPort
    \/ \E p \in Pids : ProcExit(p)
    \/ \E q \in Ports : ForeignListen(q)

SpecWait == InitWait /\ [][NextWait]_vars

----------------------------------------------------------------------------
(* The "quit" item of the tray menu (setup_tray): the managed child and the *)
(* backends of the PID files are stopped, processes with the service        *)
(* signature are scanned for and killed, and after 600 ms the handler looks *)
(* again and exits the controller if nothing is left.  One action per       *)
(* stretch between two points at which time passes.                         *)

\* the processes of S exit, one after the other
RECURSIVE ExitAll(_, _, _, _, _)
ExitAll(P, O, S, held, z) ==
    IF S = {} THEN [proc |-> P, owner |-> O]
    ELSE LET p == CHOOSE x \in S : TRUE
             s == ExitProc(P, O, p, held, z)
         IN  ExitAll(s.proc, s.owner, S \ {p}, held, z)

\* (mutation) a scan that takes every running process for a backend
scan_without_signature(P, O, D, z) ==
    LET killed == {p \in Pids : Alive(P, p) /\ is_pid_running(P, p)}
        s == ExitAll(P, O, killed \cap D, {}, z)
    IN  [killed |-> killed, proc |-> s.proc, owner |-> s.owner]

\* kill_openakita_orphans in process table P and port table O: the process list is
\* searched for the service signature, every process found that the liveness probe
\* confirms is signalled and its pid returned.  D: the pids that exit on the signal
\* (SIGTERM can be survived), z: see ExitProc
kill_openakita_orphans(P, O, D, z) ==
    LET killed == {p \in Pids : Alive(P, p) /\ P[p].oa /\ is_pid_running(P, p)}
        s == ExitAll(P, O, killed \cap D, {}, z)
    IN  [killed |-> killed, proc |-> s.proc, owner |-> s.owner]

\* stop_service_pid_entry on the state st (files and operating system)
stop_service_pid_entry(st, ent, ch) ==
    LET port == IF ent.workspace_id \in Workspaces THEN EffectivePort(ent.workspace_id)
                ELSE DefaultPort
        r == IF is_pid_running(st.proc, ent.pid)
             THEN graceful_stop_pid(st.proc, st.owner, ent.pid, port, {}, ch)
             ELSE [ok |-> TRUE, proc |-> st.proc, owner |-> st.owner, sent |-> {}]
    IN  IF r.ok
        THEN [pidFile |-> remove_file(st.pidFile, ent.pid_file),
              hbFile  |-> remove_heartbeat_file(st.hbFile, ent.workspace_id),
              proc    |-> r.proc,
              owner   |-> r.owner]
        ELSE [st EXCEPT !.proc = r.proc, !.owner = r.owner]

\* the quit handler, step 2: the loop over the entries that are not "external"
RECURSIVE QuitEntries(_, _, _)
QuitEntries(order, st, ch) ==
    IF order = <<>> THEN st
    ELSE QuitEntries(Tail(order),
                     IF Head(order).started_by = "external" THEN st
                     ELSE stop_service_pid_entry(st, Head(order), ch),
                     ch)

Quitting(pc, ws, pid, killed) ==
    [pc |-> pc, ws |-> ws, pid |-> pid, stopped |-> FALSE, killed |-> killed]
NotQuitting == Quitting("t_idle", <<>>, 0, {})

\* a controller that is up.  pid 1: nothing, or a backend of workspace a that is
\* the managed child, or is known by a PID file ("tauri" or "external"), or is an
\* orphan; pid 2: nothing, an unrelated process, or a backend of the other
\* workspace with a PID file or without
InitTray ==
    /\ phase = "tray"
    /\ \E k1 \in {"none", "handle", "tauri", "external", "orphan"},
          k2 \in {"none", "unrelated", "tauri", "orphan"} :
         /\ proc = [p \in Pids |->
                      IF p = 1 /\ k1 # "none" THEN Backend(WsA, Epoch, k1 = "handle")
                      ELSE IF p = 2 /\ k2 = "unrelated" THEN Unrelated(Epoch)
                      ELSE IF p = 2 /\ k2 # "none" THEN Backend(WsB, Epoch, FALSE)
                      ELSE NoProc]
         /\ mc = IF k1 = "handle" THEN ManagedProcess(WsA, 1) ELSE NoMc
         /\ pidFile = [w \in Workspaces |->
                         IF w = WsA /\ k1 \in {"handle", "tauri"}
                         THEN write_pid_file(1, "tauri", Epoch)
                         ELSE IF w = WsA /\ k1 = "external"
                         THEN write_pid_file(1, "external", Epoch)
                         ELSE IF w = WsB /\ k2 = "tauri"
                         THEN write_pid_file(2, "tauri", Epoch)
                         ELSE Absent]
    /\ portOwner = [q \in Ports |-> 0]
    /\ lockFile = [w \in Workspaces |-> FALSE]
    /\ hbFile \in [Workspaces -> {NoHb, FreshHb}]
    /\ autoFlag = FALSE
    /\ thr = [t \in Threads |-> IF t = "ui" THEN NotQuitting ELSE Idle]
    /\ ret = NoRet

\* steps 1 and 2: the managed child, whatever its workspace, gets the stop
\* sequence, Child::kill and Child::wait, and its PID file is removed; then the loop
QuitStop ==
    /\ phase = "tray"
    /\ thr["ui"].pc = "t_idle"
    /\ \E ch \in GspChoices :
         LET r == IF mc = NoMc THEN [proc |-> proc, owner |-> portOwner]
                  ELSE graceful_stop_pid(proc, portOwner, mc.pid,
                                         EffectivePort(mc.workspace_id), HeldPids, ch)
             s == IF mc # NoMc /\ is_pid_running(r.proc, mc.pid)
                  THEN ExitProc(Reap(r.proc, mc.pid), r.owner, mc.pid, {}, FALSE)
                  ELSE [proc |-> r.proc, owner |-> r.owner]
             st0 == [pidFile |-> IF mc = NoMc THEN pidFile
                                 ELSE remove_file(pidFile, mc.workspace_id),
                     hbFile  |-> hbFile,
                     proc    |-> s.proc,
                     owner   |-> s.owner]
         IN  \E st \in {QuitEntries(order, st0, ch) :
                          order \in Orders(list_service_pids(st0.pidFile))} :
               /\ pidFile' = st.pidFile
               /\ hbFile' = st.hbFile
               /\ proc' = st.proc
               /\ portOwner' = st.owner
    /\ thr' = [thr EXCEPT !["ui"] = Quitting("q_scan", mc.workspace_id, mc.pid, {})]
    /\ mc' = NoMc
    /\ ret' = NoRet
    /\ UNCHANGED <<phase, lockFile, autoFlag>>

\* step 3: kill_openakita_orphans, then the sleep of 600 ms
QuitScan ==
    /\ phase = "tray"
    /\ thr["ui"].pc = "q_scan"
    /\ \E D \in SUBSET Pids, z \in BOOLEAN :
         LET k == kill_openakita_orphans(proc, portOwner, D, z)
         IN  /\ proc' = k.proc
             /\ portOwner' = k.owner
             /\ thr' = [thr EXCEPT !["ui"] = [@ EXCEPT !.pc = "q_confirm", !.killed = k.killed]]
    /\ ret' = NoRet
    /\ UNCHANGED <<phase, mc, autoFlag, files>>

\* step 4: the PID files are listed again, kill_openakita_orphans is called again,
\* and the controller exits if neither finds anything; else it stays up and
\* reports "quit_failed"
QuitConfirm ==
    /\ phase = "tray"
    /\ thr["ui"].pc = "q_confirm"
    /\ \E D \in SUBSET Pids, z \in BOOLEAN :
         LET still_pid == {e \in list_service_pids(pidFile) :
                             e.started_by # "external" /\ is_pid_running(proc, e.pid)}
             k == kill_openakita_orphans(proc, portOwner, D, z)
             clean == still_pid = {} /\ k.killed = {}
         IN  /\ proc' = k.proc
             /\ portOwner' = k.owner
             /\ phase' = IF clean THEN "exited" ELSE phase
             /\ ret' = [Returned("quit", "ui", thr["ui"].ws, clean, FALSE, 0, "",
                                 thr["ui"].pid, {})
                          EXCEPT !.pre = <<thr["ui"].killed, k.killed>>]
    /\ thr' = [thr EXCEPT !["ui"] = NotQuitting]
    /\ UNCHANGED <<mc, autoFlag, files>>

\* beside the handler: backends exit, listen and write their heartbeat
NextTray ==
    \/ QuitStop
    \/ QuitScan
    \/ QuitConfirm
    \/ \E p \in Pids : ProcExit(p)
    \/ \E p \in Pids : BackendListen(p)
    \/ \E p \in Pids : HeartbeatWrite(p)

SpecTray == InitTray /\ [][NextTray]_vars

----------------------------------------------------------------------------
(* Properties.  `ret` holds the operation that returned in the last step,  *)
(* so a state predicate over `ret` speaks of the state an operation        *)
(* returns in.                                                             *)

StopReturned == ret.op = "stop"
StartReturned == ret.op = "start"
ReconcileReturned == ret.op = "reconcile"
StatusReturned == ret.op = "status"
CheckPidAliveReturned == ret.op = "check_pid_alive"

\* C1: whenever Stop returns success, the process that was tracked for the
\* instance when Stop was called, through the handle or through the PID file, does
\* not run any more
C1_StopSuccessMeansStopped ==
    (StopReturned /\ ret.ok /\ ret.tracked # 0) => ~Alive(proc, ret.tracked)

\* a Stop of an instance tracked by its PID file only had to kill, and succeeded
C1_Witness ==
    /\ StopReturned /\ ret.ok /\ ret.via = "record"
    /\ ret.tracked # 0
    /\ "kill" \in ret.sent

\* C2: after a Stop that returns success the PID file of the instance does not
\* exist, and the Status that follows at once reports running = false and no pid
C2_StopSuccessThenStatusStopped ==
    (StopReturned /\ ret.ok) =>
        /\ pidFile[ret.ws] = Absent
        /\ ~StatusRunning(ret.ws)
        /\ StatusPid(ret.ws) = 0

\* a Stop through the handle of a running backend succeeded
C2_Witness ==
    /\ StopReturned /\ ret.ok /\ ret.via = "handle"
    /\ ret.tracked # 0
    /\ ret.sent # {}

\* C3: after a Stop that returns a failure, the stop sequence having left the
\* process in the process table, the PID record (and the handle) of the instance
\* are still there and the Status that follows at once reports running = true
C3_StopFailureThenStatusRunning ==
    (StopReturned /\ ~ret.ok /\ is_pid_running(proc, ret.tracked)) =>
        /\ read_pid_file(pidFile, ret.ws).pid = ret.tracked
        /\ StatusRunning(ret.ws)

\* C4: when a Start has returned success and the process it reported runs, a
\* second Start returns running = true with the same pid from the "already
\* running" check, before anything is spawned
C4_StartIdempotent ==
    (StartReturned /\ ret.ok /\ Alive(proc, ret.pid)) =>
        AlreadyRunning(mc, proc, pidFile, remove_heartbeat_file(hbFile, ret.ws), ret.ws)
            = ret.pid

\* a Start found the backend of an earlier Start running, through the handle
C4_Witness ==
    /\ StartReturned /\ ret.ok /\ ret.via = "handle"
    /\ Alive(proc, ret.pid)

\* C5: two Starts of one instance that overlap and both began while the instance
\* was Stopped never both spawn a backend
C5_AtMostOneSpawn ==
    ~(/\ thr["ui"].ws = thr["auto"].ws
      /\ thr["ui"].stopped /\ thr["auto"].stopped
      /\ thr["ui"].pid # 0 /\ thr["auto"].pid # 0
      /\ thr["ui"].pid # thr["auto"].pid)

\* C6: a Start that finds the lock file of its instance at the acquisition returns
\* the "already in progress" error in that very step: nothing is spawned, no PID file
\* written, no handle stored, and the lock file stays
C6_LockContentionFailsFast ==
    [][\A t \in Threads :
         (thr[t].pc = "s_lock" /\ lockFile[thr[t].ws] /\ thr'[t].pc # "s_lock") =>
            /\ ret'.op = "start" /\ ret'.t = t /\ ~ret'.ok
            /\ ret'.err = "in_progress"
            /\ ret'.pid = 0
            /\ UNCHANGED <<proc, pidFile, mc, lockFile>>]_vars

\* a Start returned "already in progress" and the other Start's lock file is there
C6_Witness ==
    /\ StartReturned /\ ret.via = "nolock"
    /\ lockFile[ret.ws]
    /\ InStart(Other(ret.t))

\* C7: when a Start that had acquired the lock returns, by whatever path, the lock
\* file of its instance does not exist
C7_LockReleasedOnReturn ==
    (StartReturned /\ ret.via = "locked") => ~lockFile[ret.ws]

\* a Start that had spawned its child returned an error
C7_Witness ==
    /\ StartReturned /\ ret.via = "locked"
    /\ ~ret.ok
    /\ ret.pid # 0

\* C8: when startup_reconcile has returned the run directory holds no lock file
\* and no PID record whose process is dead or fails the validation
C8_ReconcileLeavesNoGarbage ==
    ReconcileReturned =>
        \A w \in Workspaces :
            /\ ~lockFile[w]
            /\ \/ read_pid_file(pidFile, w) = NoData
               \/ is_pid_file_valid(proc, read_pid_file(pidFile, w))

\* C9: for a PID record that fails the validation startup_reconcile sends neither
\* the shutdown request nor a kill to the recorded pid, and deletes the record and
\* the heartbeat file
C9_ReconcileDeletesInvalidOnly ==
    ReconcileReturned =>
        \A w \in Workspaces :
            ret.pre[w].class = "invalid" =>
                /\ ret.pre[w].pid \notin ret.stopped
                /\ pidFile[w] = Absent
                /\ hbFile[w] = NoHb

\* the half of C9 that the code keeps: startup_reconcile runs the stop sequence on
\* no pid that a record failing the validation names
ReconcileSparesInvalid ==
    ReconcileReturned =>
        \A w \in Workspaces : ret.pre[w].class = "invalid" => ret.pre[w].pid \notin ret.stopped

\* C10: for every PID record that passes the validation and whose heartbeat is
\* older than 60 s, startup_reconcile runs the stop sequence on the recorded pid and
\* deletes the record and the heartbeat file
C10_ReconcileStopsHung ==
    ReconcileReturned =>
        \A w \in Workspaces :
            ret.pre[w].class = "hung" =>
                /\ ret.pre[w].pid \in ret.stopped
                /\ pidFile[w] = Absent
                /\ hbFile[w] = NoHb

\* C11: a Status that finds no handle for the instance and a PID record returns
\* running = true only for a record that passes the validation; otherwise it
\* returns running = false and has deleted the PID file and the heartbeat file
C11_StatusHealsInvalidRecord ==
    (StatusReturned /\ ret.via = "record" /\ ret.tracked # 0) =>
        IF ret.running
        THEN /\ ret.pid = ret.tracked
             /\ read_pid_file(pidFile, ret.ws).pid = ret.pid
             /\ is_pid_file_valid(proc, read_pid_file(pidFile, ret.ws))
        ELSE /\ ret.pid = 0
             /\ pidFile[ret.ws] = Absent
             /\ hbFile[ret.ws] = NoHb

\* a Status found the recorded pid in the hands of a process that fails the
\* validation, and said "not running"
C11_Witness ==
    /\ StatusReturned /\ ret.via = "record"
    /\ ~ret.running
    /\ is_pid_running(proc, ret.tracked)
    /\ ~proc[ret.tracked].oa

\* C12: a Status that finds a handle for the instance answers from the handle:
\* running = true with the handle's pid while the child has not exited, whatever
\* the PID file says; running = false once it has exited, the handle cleared and
\* the PID file and the heartbeat file deleted.  The PID file is consulted only
\* when there is no handle for the instance
C12_StatusDecidesFromHandle ==
    StatusReturned =>
        /\ ret.via = "handle" =>
              IF ret.running
              THEN /\ mc = ManagedProcess(ret.ws, ret.pid)
                   /\ proc[ret.pid].st = "alive"
              ELSE /\ ret.pid = 0
                   /\ proc[ret.tracked].st # "alive"
                   /\ mc = NoMc
                   /\ pidFile[ret.ws] = Absent
                   /\ hbFile[ret.ws] = NoHb
        /\ ret.via = "record" => ~(mc # NoMc /\ mc.workspace_id = ret.ws)

\* a Status answered "running" from the handle while the PID file names another pid
C12_Witness ==
    /\ StatusReturned /\ ret.via = "handle" /\ ret.running
    /\ read_pid_file(pidFile, ret.ws).pid # ret.pid

\* the step is the "already running" check of a Start of w: it ends with the
\* Start's return from that check, or with the Start going on to the lock
StartCheckStep(w) ==
    \E t \in Threads :
        /\ thr[t].pc \in {"idle", "s_begin"}
        /\ \/ thr'[t].pc = "s_lock" /\ thr'[t].ws = w
           \/ /\ ret'.op = "start" /\ ret'.t = t /\ ret'.ws = w
              /\ ret'.via \in {"handle", "record"}

\* C13: a Status, a Start or a check_pid_alive of an instance without handle whose
\* PID record is valid, whose process runs and whose heartbeat is stale leaves the
\* process and the PID file as they are and reports the process as running
C13_StaleHeartbeatNeverKills ==
    [][\A w \in Workspaces :
         LET data == read_pid_file(pidFile, w) IN
         (/\ ~(mc # NoMc /\ mc.workspace_id = w)
          /\ data # NoData
          /\ is_pid_file_valid(proc, data)
          /\ Alive(proc, data.pid)
          /\ heartbeat_stale(hbFile, w) = "stale"
          /\ \/ ret'.op \in {"status", "check_pid_alive"} /\ ret'.ws = w
             \/ StartCheckStep(w))
         => /\ proc'[data.pid] = proc[data.pid]
            /\ pidFile'[w] = pidFile[w]
            /\ ret'.op # "none"
            /\ ret'.running]_vars

\* the part of C13 that the code keeps: Status and Start
StatusAndStartSpareStale ==
    [][\A w \in Workspaces :
         LET data == read_pid_file(pidFile, w) IN
         (/\ ~(mc # NoMc /\ mc.workspace_id = w)
          /\ data # NoData
          /\ is_pid_file_valid(proc, data)
          /\ Alive(proc, data.pid)
          /\ heartbeat_stale(hbFile, w) = "stale"
          /\ \/ ret'.op = "status" /\ ret'.ws = w
             \/ StartCheckStep(w))
         => /\ proc'[data.pid] = proc[data.pid]
            /\ pidFile'[w] = pidFile[w]
            /\ ret'.op # "none"
            /\ ret'.running]_vars

\* C14 as the specification states it: is_heartbeat_stale(id, 30) and the
\* heartbeat_stale of a ServiceStatus are None without a readable heartbeat file,
\* Some(false) for a heartbeat less than 30 s old and Some(true) otherwise, at
\* exactly 30 s too
C14_StaleFromThirtySeconds ==
    ret.op \in {"is_heartbeat_stale", "build_service_status"} =>
        ret.pre = IF hbFile[ret.ws] \in {NoHb, BadHb} THEN "none"
                  ELSE IF hbFile[ret.ws] < 30 THEN "fresh"
                  ELSE "stale"

\* C14, amended: ... Some(false) for a heartbeat at most 30 s old, Some(true) for
\* an older one; at exactly 30 s the heartbeat is not stale
C14_StaleBeyondThirtySeconds ==
    ret.op \in {"is_heartbeat_stale", "build_service_status"} =>
        ret.pre = IF hbFile[ret.ws] \in {NoHb, BadHb} THEN "none"
                  ELSE IF hbFile[ret.ws] <= 30 THEN "fresh"
                  ELSE "stale"

\* is_heartbeat_stale(id, 30) was asked about a heartbeat exactly 30 s old
C14_Witness ==
    /\ ret.op = "is_heartbeat_stale"
    /\ ret.tracked = 30
    /\ hbFile[ret.ws] = 30
    /\ ret.pre = "fresh"

\* C15: is_pid_file_valid(r) is: r.pid is running, and the creation time of r.pid
\* is within 5 s of r.started_at or the process carries the service signature;
\* with started_at = 0 or an unreadable creation time only the signature counts
C15_RecordValidity ==
    ret.op = "is_pid_file_valid" =>
        LET r == read_pid_file(pidFile, ret.ws)
            p == proc[r.pid]
            running == p.st # "none"
            time_match == /\ r.started_at # 0
                          /\ p.ctime # NoTime
                          /\ p.ctime - r.started_at <= 5
                          /\ r.started_at - p.ctime <= 5
        IN  ret.pre = (running /\ (time_match \/ p.oa))

\* a record whose pid is running without the signature and whose creation time
\* cannot be read was found not valid
C15_Witness ==
    /\ ret.op = "is_pid_file_valid"
    /\ ret.pre = FALSE
    /\ read_pid_file(pidFile, ret.ws).started_at # 0
    /\ proc[ret.tracked].st = "alive"
    /\ proc[ret.tracked].ctime = NoTime

\* C16: pid 0 is no process: is_pid_running(0) and is_openakita_process(0) are
\* false, kill_pid(0) succeeds and changes nothing, and a PID file whose pid is 0,
\* JSON or bare integer, reads as no record
C16_PidZeroIsNoProcess ==
    /\ (ret.op \in {"is_pid_running", "is_openakita_process"} /\ ret.tracked = 0) =>
            ret.pre = FALSE
    /\ (ret.op = "kill_pid" /\ ret.tracked = 0) =>
            ret.pre = [ok |-> TRUE, proc |-> proc, owner |-> portOwner]
    /\ (ret.op = "read_pid_file" /\ pidFile[ret.ws].shape \in {"json", "int"}
                                 /\ pidFile[ret.ws].pid = 0) =>
            ret.pre = NoData

\* is_pid_running(0) was asked while a process runs
C16_Witness ==
    /\ ret.op = "is_pid_running"
    /\ ret.tracked = 0
    /\ ret.pre = FALSE
    /\ \E p \in Pids : proc[p].st = "alive"

\* C17: a PID file that holds the bare integer n > 0 reads as {pid: n, started_by:
\* "tauri", started_at: 0}; a JSON record without started_by reads with started_by
\* "tauri", one without started_at with started_at 0, so a JSON record that has
\* only the pid reads as the bare integer does
C17_ReadNormalises ==
    ret.op = "read_pid_file" =>
        LET c == pidFile[ret.ws] IN
        /\ (c.shape = "int" /\ c.pid > 0) =>
                ret.pre = [pid |-> c.pid, started_by |-> "tauri", started_at |-> 0]
        /\ (c.shape = "json" /\ c.pid > 0) =>
                /\ ret.pre.pid = c.pid
                /\ ret.pre.started_by = IF c.started_by = "" THEN "tauri" ELSE c.started_by
                /\ ret.pre.started_at = c.started_at
        /\ (c.shape = "json" /\ c.pid > 0 /\ c.started_by = "" /\ c.started_at = 0) =>
                ret.pre = read_pid_file([pidFile EXCEPT ![ret.ws] = BareInteger(c.pid)], ret.ws)

\* a JSON record that has only the pid was read
C17_Witness ==
    /\ ret.op = "read_pid_file"
    /\ pidFile[ret.ws] = JsonRecord(1, "", 0)
    /\ ret.pre.started_by = "tauri"

\* the PID file of w is missing or holds nothing that read_pid_file accepts
Unreadable(w) == pidFile[w].shape \in {"absent", "garbage"} \/ pidFile[w].pid = 0

\* C18: for an instance without handle whose PID file is missing or unreadable,
\* Status returns running = false, Stop returns success and terminates nothing,
\* Start passes its "already running" check and goes on towards the spawn, and
\* startup_reconcile leaves the file and the heartbeat file alone; none of them
\* returns an error
C18_UnreadableRecordIsNoRecord ==
    [][\A w \in Workspaces :
         (Unreadable(w) /\ ~(mc # NoMc /\ mc.workspace_id = w)) =>
            /\ (ret'.op = "status" /\ ret'.ws = w) =>
                    ret'.ok /\ ~ret'.running /\ ret'.pid = 0 /\ proc' = proc
            /\ (ret'.op = "stop" /\ ret'.ws = w) =>
                    ret'.ok /\ ret'.sent = {} /\ proc' = proc
            /\ StartCheckStep(w) =>
                    /\ ret'.op = "none"
                    /\ proc' = proc
                    /\ \E t \in Threads : thr'[t].pc = "s_lock" /\ thr'[t].ws = w
            /\ ret'.op = "reconcile" =>
                    /\ ret'.ok
                    /\ ret'.pre[w].class = "none"
                    /\ pidFile'[w] = pidFile[w]
                    /\ hbFile'[w] = hbFile[w]]_vars

\* a Status found a PID file that cannot be parsed while the backend of the
\* instance runs, and said "not running"
C18_Witness ==
    /\ StatusReturned /\ ret.via = "record"
    /\ pidFile[ret.ws] = Garbage
    /\ ~ret.running
    /\ \E p \in Pids : Alive(proc, p) /\ proc[p].oa /\ proc[p].ws = ret.ws

\* C19: a Start that holds no obstacle but the port of its instance, taken
\* during the whole wait, returns the error that names the port (ret.tracked), and
\* that step spawns nothing, writes no PID file, stores no handle and leaves no
\* lock file.  (A failure of ensure_workspace_scaffold comes before the port
\* check and is reported instead; a step that changes `phase` is the death of
\* the controller, not a return.)
C19_PortConflictFailsClean ==
    [][\A t \in Threads :
         LET w == thr[t].ws IN
         (/\ thr[t].pc = "s_lock"
          /\ ~lockFile[w]
          /\ portOwner[EffectivePort(w)] # 0
          /\ thr'[t].pc # "s_lock"
          /\ phase' = phase)
         => /\ ret'.op = "start" /\ ret'.t = t /\ ~ret'.ok /\ ~ret'.running
            /\ ret'.err \in {"port", "scaffold"}
            /\ ret'.err = "port" => ret'.tracked = EffectivePort(w)
            /\ ret'.pid = 0
            /\ UNCHANGED <<proc, pidFile, mc>>
            /\ read_pid_file(pidFile', w) = NoData
            /\ ~(mc' # NoMc /\ mc'.workspace_id = w)
            /\ ~lockFile'[w]]_vars

\* a Start returned the port error while another program holds the port
C19_Witness ==
    /\ StartReturned /\ ret.err = "port"
    /\ ret.tracked = EffectivePort(ret.ws)
    /\ portOwner[EffectivePort(ret.ws)] = Foreign

\* C20: when a Start returns because the backend executable is missing or the
\* spawn failed, the instance has no PID record, no handle and no lock file
C20_SpawnFailureLeavesNothing ==
    (StartReturned /\ ret.err \in {"no_executable", "spawn"}) =>
        /\ ~ret.ok /\ ret.pid = 0
        /\ pidFile[ret.ws] = Absent
        /\ ~(mc # NoMc /\ mc.workspace_id = ret.ws)
        /\ ~lockFile[ret.ws]

\* a Start returned the spawn error
C20_Witness ==
    /\ StartReturned /\ ret.err = "spawn"
    /\ ret.via = "locked"

\* C21: when a Start returns from its re-check after the spawn and the child it
\* spawned has exited by then, it returns the "exited immediately" error, the PID
\* file it wrote is deleted and no handle for that pid is left, so that a Status
\* reports running = false
C21_ImmediateExitIsReported ==
    (/\ StartReturned /\ ret.via = "locked"
     /\ ret.pid # 0
     /\ ret.err # "write_pid"
     /\ ~Alive(proc, ret.pid))
    => /\ ~ret.ok
       /\ ret.err = "exited"
       /\ read_pid_file(pidFile, ret.ws).pid # ret.pid
       /\ ~(mc # NoMc /\ mc.pid = ret.pid)
       /\ ~StatusRunning(ret.ws)

\* C22: every wait inside an operation is limited: none lasts longer than the
\* longest loop of the stop sequence (GracePolls sleeps), whatever the process does
C22_WaitsAreBounded ==
    phase = "wait" => Me.polls <= GracePolls

\* the operation that returned has moved the instance ws to Stopped
MovedToStopped(ws) ==
    \/ ret.op = "stop" /\ ret.ok /\ ret.ws = ws
    \/ ret.op \in {"status", "check_pid_alive"} /\ ret.ws = ws /\ ret.tracked # 0 /\ ~ret.running
    \/ ret.op = "reconcile" /\ ret.pre[ws].class \in {"invalid", "hung"}
    \/ ret.op = "start" /\ ret.err = "exited" /\ ret.ws = ws
    \/ ret.op = "quit" /\ ret.tracked # 0 /\ ret.ws = ws

\* C23: when an operation that has moved an instance to Stopped returns (Stop,
\* Status, the liveness check, Reconcile, Start on an immediate exit, the quit
\* handler of the tray on the managed child), that instance has no heartbeat file
C23_StoppedLeavesNoHeartbeat ==
    \A ws \in Workspaces : MovedToStopped(ws) => hbFile[ws] = NoHb

\* this step is one of Start, Stop or Status invoked for ws: the step in which
\* one of them returns, or a step inside a Start
StepOf(ws) ==
    /\ phase' = phase
    /\ \/ ret'.op \in {"start", "stop", "status"} /\ ret'.ws = ws
       \/ \E t \in Threads : /\ thr'[t] # thr[t]
                              /\ thr'[t].pc \notin {"idle", "s_begin"}
                              /\ thr'[t].ws = ws

\* C24: a step of Start, Stop or Status for one instance leaves every other
\* instance's PID file, heartbeat file and lock file as they are, terminates no
\* process of another instance, and does not change what Status would report
\* for another instance
C24_OtherInstancesUntouched ==
    [][\A a, b \in Workspaces :
         (a # b /\ StepOf(b))
         => /\ pidFile'[a] = pidFile[a]
            /\ hbFile'[a] = hbFile[a]
            /\ lockFile'[a] = lockFile[a]
            /\ \A p \in Pids : (Alive(proc, p) /\ proc[p].ws = a) => Alive(proc', p)
            /\ StatusRunning(a)' = StatusRunning(a)
            /\ StatusPid(a)' = StatusPid(a)]_vars

\* C25: while the controller runs, the handle of an instance leaves MANAGED_CHILD
\* only in a step that finds the instance's child exited or in a Stop of that
\* instance; in particular not in a Start of another instance
C25_HandleRemovedOnlyOnExitOrStop ==
    [][(/\ phase' = phase
        /\ mc # NoMc
        /\ mc' # mc)
       => \/ ~Alive(proc, mc.pid)
          \/ ret'.op = "stop" /\ ret'.ws = mc.workspace_id]_vars

\* the Start of thread t is between its check of the handle and its store
BetweenCheckAndStore(t) == thr[t].pc \in {"s_lock", "s_spawn", "s_store"}

\* C26: between a Start's check of the handle and its storing of the new handle no
\* step of another operation changes the handle or returns on the handle path
C26_HandleSectionIsAtomic ==
    [][\A t \in Threads :
         (/\ phase' = phase
          /\ BetweenCheckAndStore(t)
          /\ thr'[t] = thr[t])
         => /\ mc' = mc
            /\ ret'.via # "handle"]_vars

\* C27: a Start that returns "already running" for an instance whose backend runs
\* has left the PID file, the heartbeat file, the lock file, the handle and the
\* processes as they were
C27_StartOnRunningIsNoOp ==
    [][(/\ ret'.op = "start"
        /\ ret'.via \in {"handle", "record"}
        /\ ret'.ok
        /\ Alive(proc, ret'.pid)
        /\ proc[ret'.pid].ws = ret'.ws)
       => /\ pidFile' = pidFile
          /\ hbFile' = hbFile
          /\ lockFile' = lockFile
          /\ mc' = mc
          /\ proc' = proc
          /\ portOwner' = portOwner]_vars

\* this step is a call of kill_openakita_orphans by the quit handler, and the
\* list the call returned
ScanStep == phase = "tray" /\ thr["ui"].pc \in {"q_scan", "q_confirm"} /\ thr'["ui"] # thr["ui"]
Scanned == IF thr["ui"].pc = "q_scan" THEN thr'["ui"].killed ELSE ret'.pre[2]

\* C28: a scan that finds no running process with the service signature returns
\* the empty list and leaves every process as it is; no scan touches a process
\* without the signature; and the second scan of the quit handler, made when the
\* processes the first has signalled have exited, returns the empty list
C28_OrphanScanIsIdempotent ==
    [][ScanStep
       => /\ (\A p \in Pids : ~(proc[p].st = "alive" /\ proc[p].oa))
               => (Scanned = {} /\ proc' = proc /\ portOwner' = portOwner)
          /\ \A p \in Pids : ~proc[p].oa => proc'[p] = proc[p]
          /\ (/\ thr["ui"].pc = "q_confirm"
              /\ \A p \in thr["ui"].killed : proc[p].st # "alive")
               => Scanned = {}]_vars

\* the quit handler has returned; its first scan signalled a process, its second
\* scan found nothing
C28_Witness ==
    /\ ret.op = "quit"
    /\ ret.pre[1] # {}
    /\ ret.pre[2] = {}

\* C29: in the stop sequence kill_pid is called only after the shutdown request
\* was issued and only on a pid the process table still holds; and a sequence
\* that finds the pid not running at its first probe ends there with Ok, having
\* issued no request and no kill and changed no process
C29_KillOnlyAfterShutdownRequest ==
    [][(phase = "wait" /\ Me' # Me)
       => /\ ("kill" \in Me'.sent /\ "kill" \notin Me.sent)
               => /\ "shutdown" \in Me.sent
                  /\ Me.pid \in Pids
                  /\ proc[Me.pid].st # "none"
          /\ (Me.pc = "g_probe" /\ ~(Me.pid \in Pids /\ proc[Me.pid].st # "none"))
               => /\ Me'.pc = "w_after_gsp"
                  /\ Me'.res = "ok"
                  /\ Me'.sent = {}
                  /\ proc' = proc
                  /\ portOwner' = portOwner]_vars

\* the shutdown request went to the port the process listens on, the process
\* was still running afterwards and was killed
C29_Witness ==
    /\ At("g_confirm")
    /\ Me.sent = {"shutdown", "kill"}
    /\ portOwner[EffectivePort(Me.ws)] = Me.pid

\* C30: a Stop of an instance that has no handle and no PID file returns success
\* with running = false, sends nothing, and changes nothing but the instance's
\* heartbeat file, which it removes; a second such Stop right after the first
\* returns the same and changes nothing at all
C30_StopWithNothingTracked ==
    [][\A w \in Workspaces :
         (/\ phase' = phase
          /\ ret'.op = "stop" /\ ret'.ws = w
          /\ ~(mc # NoMc /\ mc.workspace_id = w)
          /\ pidFile[w].shape = "absent")
         => /\ ret'.ok /\ ~ret'.running /\ ret'.pid = 0 /\ ret'.sent = {}
            /\ proc' = proc /\ portOwner' = portOwner
            /\ mc' = mc /\ pidFile' = pidFile /\ lockFile' = lockFile
            /\ hbFile'[w] = NoHb
            /\ \A v \in Workspaces \ {w} : hbFile'[v] = hbFile[v]
            /\ (ret.op = "stop" /\ ret.ws = w /\ ret.ok /\ ret.tracked = 0)
                 => (ret' = ret /\ hbFile' = hbFile)]_vars

\* such a Stop has returned, for an instance of which a backend nobody tracks
\* runs on
C30_Witness ==
    /\ StopReturned /\ ret.ok /\ ret.tracked = 0 /\ ret.via = "record"
    /\ pidFile[ret.ws].shape = "absent"
    /\ mc = NoMc
    /\ \E p \in Pids : Alive(proc, p) /\ proc[p].oa /\ proc[p].ws = ret.ws

\* C31: startup_reconcile leaves the PID file and the heartbeat file of an
\* instance as they are, and runs no stop sequence on the recorded pid, when the
\* record passes validation and the heartbeat file is absent or at most 60 s old
C31_ReconcileSparesValidRecords ==
    [][(phase = "boot" /\ ret'.op = "reconcile")
       => \A w \in Workspaces :
            (/\ read_pid_file(pidFile, w) # NoData
             /\ is_pid_file_valid(proc, read_pid_file(pidFile, w))
             /\ \/ hbFile[w] = NoHb
                \/ hbFile[w] >= 0 /\ hbFile[w] <= ReconcileStaleSecs)
            => /\ pidFile'[w] = pidFile[w]
               /\ hbFile'[w] = hbFile[w]
               /\ read_pid_file(pidFile, w).pid \notin ret'.stopped
               /\ proc'[read_pid_file(pidFile, w).pid] = proc[read_pid_file(pidFile, w).pid]]_vars

\* the part of C31 that holds: the files of such a record are left as they are
ReconcileNeverTreatsAbsenceAsStale ==
    [][(phase = "boot" /\ ret'.op = "reconcile")
       => \A w \in Workspaces :
            (/\ read_pid_file(pidFile, w) # NoData
             /\ is_pid_file_valid(proc, read_pid_file(pidFile, w))
             /\ \/ hbFile[w] = NoHb
                \/ hbFile[w] >= 0 /\ hbFile[w] <= ReconcileStaleSecs)
            => /\ pidFile'[w] = pidFile[w]
               /\ hbFile'[w] = hbFile[w]]_vars

\* C32: startup_reconcile runs in the boot phase only, which a controller process
\* leaves with that run and does not enter again; no thread is inside a Start
\* before the controller is up; so the run removes no lock file while a Start of
\* the same controller is in progress
C32_ReconcileOnceBeforeAnyStart ==
    [][/\ ret'.op = "reconcile"
          => /\ phase = "boot" /\ phase' # "boot"
             /\ \A t \in Threads : thr[t] = Idle /\ thr'[t] = Idle
       /\ phase # "boot" => phase' # "boot"
       /\ (\E t \in Threads : thr'[t].pc # "idle") => phase' = "up"
       /\ \A w \in Workspaces :
            (lockFile[w] /\ ~lockFile'[w] /\ \E t \in Threads : InStart(t) /\ thr[t].ws = w)
            => ret'.op = "start"]_vars

\* the auto-start thread is inside its Start and holds the start lock
C32_Witness ==
    /\ thr["auto"].pc = "s_spawn"
    /\ lockFile[thr["auto"].ws]
    /\ phase = "up"

\* C33: AUTO_START_IN_PROGRESS is true exactly while the auto-start thread exists
\* and has not finished its Start: it is set when the thread is spawned, is false
\* in the state the thread's Start returns in, success or failure, and is never
\* true when no auto-start thread was spawned
C33_AutoStartFlagTracksAutoStart ==
    /\ autoFlag <=> thr["auto"].pc # "idle"
    /\ (StartReturned /\ ret.t = "auto") => ~autoFlag

\* the Start of the auto-start thread has failed and the flag is cleared
C33_Witness ==
    /\ StartReturned /\ ret.t = "auto"
    /\ ~ret.ok
    /\ ~autoFlag

\* C34: no step of the quit handler changes the process or the PID file of a
\* running backend whose PID file says started_by "external", and no scan of the
\* handler signals it
C34_QuitSparesExternalBackends ==
    [][(phase = "tray" /\ thr'["ui"] # thr["ui"])
       => \A w \in Workspaces :
            (/\ pidFile[w].shape = "json"
             /\ pidFile[w].started_by = "external"
             /\ Alive(proc, pidFile[w].pid)
             /\ proc[pidFile[w].pid].oa)
            => /\ proc'[pidFile[w].pid] = proc[pidFile[w].pid]
               /\ pidFile'[w] = pidFile[w]
               /\ ScanStep => pidFile[w].pid \notin Scanned]_vars

\* C35: a Stop that takes the PID-file path on a record that does not pass
\* validation sends neither a shutdown request nor a kill and terminates no process
C35_StopValidatesTheRecord ==
    [][\A w \in Workspaces :
         (/\ phase' = phase
          /\ ret'.op = "stop" /\ ret'.ws = w /\ ret'.via = "record"
          /\ read_pid_file(pidFile, w) # NoData
          /\ ~is_pid_file_valid(proc, read_pid_file(pidFile, w)))
         => /\ ret'.sent = {}
            /\ proc' = proc]_vars

\* C36: when startup_reconcile returns, a record it found valid with a stale
\* heartbeat is still there if its process has survived the stop sequence
C36_ReconcileKeepsSurvivorsRecord ==
    ReconcileReturned
    => \A w \in Workspaces :
         (/\ ret.pre[w].class = "hung"
          /\ Alive(proc, ret.pre[w].pid)
          /\ proc[ret.pre[w].pid].oa)
         => read_pid_file(pidFile, w).pid = ret.pre[w].pid

\* C37: in the state in which the stop sequence returns Err, the liveness probe
\* still finds the target process
C37_StopSequenceFailsOnlyOnSurvivor ==
    [][(/\ phase = "wait"
        /\ Me.pc # "w_after_gsp"
        /\ Me'.pc = "w_after_gsp"
        /\ Me'.res = "err")
       => is_pid_running(proc', Me.pid)]_vars

\* C38: when a Start that has spawned a process returns an error and that process
\* runs, the PID file or the handle names it
C38_FailedStartLeavesNoUntrackedChild ==
    (/\ StartReturned /\ ~ret.ok
     /\ ret.pid # 0
     /\ Alive(proc, ret.pid))
    => \/ read_pid_file(pidFile, ret.ws).pid = ret.pid
       \/ mc # NoMc /\ mc.pid = ret.pid

----------------------------------------------------------------------------
(* Configuration migration (migrations.rs): run_migrations, called by main  *)
(* after startup_reconcile at every launch of the controller.  state.json   *)
(* and its backups are kept in the record of the "ui" thread.               *)

CURRENT_CONFIG_VERSION == 1
MaxRuns == 2
MaxVersion == 2

\* the configVersion member of the state object: absent, a JSON number that
\* fits a u64 (hi * 2^32 + lo, lo below 2^32), a negative number, or a JSON value
\* of another type
NoField == [k |-> "none", hi |-> 0, lo |-> 0]
Num(hi, lo) == [k |-> "num", hi |-> hi, lo |-> lo]
Negative == [k |-> "negative", hi |-> 0, lo |-> 1]
Text == [k |-> "text", hi |-> 0, lo |-> 0]
CvFields ==
    {NoField, Text, Negative} \cup {Num(hi, lo) : hi \in {0, 1}, lo \in 0 .. MaxVersion}

\* the order of version numbers
VersionAtLeast(c, v) == c.k = "num" /\ (c.hi > 0 \/ c.lo >= v)
VersionNotBelow(c, d) ==
    \/ d.k = "negative" /\ c.k \in {"negative", "num"}
    \/ /\ d.k = "num" /\ c.k = "num"
       /\ (c.hi > d.hi \/ (c.hi = d.hi /\ c.lo >= d.lo))

\* a file: missing, not JSON, or a JSON value (an object, null, or another
\* value such as an array) in the layout it was written in
NoFile == [shape |-> "missing", cv |-> NoField, fmt |-> ""]
NotJson == [shape |-> "garbage", cv |-> NoField, fmt |-> ""]
Json(shape, cv, fmt) == [shape |-> shape, cv |-> cv, fmt |-> fmt]
Parseable(f) == f.shape \in {"object", "null", "array"}
StateFiles ==
    {NoFile, NotJson}
      \cup {Json("object", c, f) : c \in CvFields, f \in {"compact", "pretty"}}
      \cup {Json(sh, NoField, f) : sh \in {"null", "array"}, f \in {"compact", "pretty"}}

\* state.get("configVersion").and_then(|v| v.as_u64()).unwrap_or(1) as u32: the
\* cast keeps the low 32 bits
current_version(state) ==
    IF state.shape = "object" /\ state.cv.k = "num" THEN state.cv.lo ELSE 1

\* state.get("configVersion").is_none()
FieldIsNone(state) == state.shape # "object" \/ state.cv.k = "none"

\* state["configVersion"] = json!(v): null becomes an object, an object gets
\* the member, any other value panics
CanIndex(state) == state.shape \in {"object", "null"}
SetVersion(state, v) == [state EXCEPT !.shape = "object", !.cv = Num(0, v)]

\* serde_json::to_string_pretty
to_string_pretty(state) == [state EXCEPT !.fmt = "pretty"]

\* the registered migrations, by target version
get_migrations == <<>>

\* the migration chain: every registered migration above current is applied and
\* stamps its target version
RECURSIVE MigrationChain(_, _, _)
MigrationChain(state, current, i) ==
    IF i > Len(get_migrations) THEN state
    ELSE IF current < get_migrations[i]
         THEN MigrationChain(SetVersion(state, get_migrations[i]), current, i + 1)
         ELSE MigrationChain(state, current, i + 1)

NoBackups == [v \in 0 .. (CURRENT_CONFIG_VERSION - 1) |-> NoFile]

Migrating(pc, file, backup, state, cur, runs, pre, preb, prev) ==
    [pc |-> pc, ws |-> <<>>, pid |-> 0, stopped |-> FALSE, file |-> file,
     backup |-> backup, state |-> state, cur |-> cur, runs |-> runs,
     pre |-> pre, preb |-> preb, prev |-> prev]

\* the controller is launched over any state.json, with no backup or one left
\* by an earlier launch
InitMigrate ==
    /\ phase = "migrate"
    /\ proc = [p \in Pids |-> NoProc]
    /\ portOwner = [q \in Ports |-> 0]
    /\ pidFile = [w \in Workspaces |-> Absent]
    /\ lockFile = [w \in Workspaces |-> FALSE]
    /\ hbFile = [w \in Workspaces |-> NoHb]
    /\ mc = NoMc
    /\ autoFlag = FALSE
    /\ ret = NoRet
    /\ \E f \in StateFiles, b \in {NoFile, NotJson} :
         thr = [t \in Threads |->
                  IF t = "ui"
                  THEN Migrating("m_idle", f, [v \in DOMAIN NoBackups |-> b], NoFile, 0, 0,
                                 f, [v \in DOMAIN NoBackups |-> b], "none")
                  ELSE Idle]

MAt(pc) == phase = "migrate" /\ Me.pc = pc
MFrame == UNCHANGED <<phase, proc, portOwner, pidFile, lockFile, hbFile, mc, autoFlag>>
MigrateReturn(ok, err) ==
    ret' = [NoRet EXCEPT !.op = "migrate", !.t = "ui", !.ok = ok, !.err = err]

\* fs::write(state_path, data): the data is written, or the call fails and
\* leaves the file as it was or cut short
WriteOutcomes(file, data) ==
    {[file |-> data, ok |-> TRUE], [file |-> file, ok |-> FALSE],
     [file |-> NotJson, ok |-> FALSE]}

\* run_migrations up to the version read: a missing file is success, a file
\* that cannot be read or parsed is an error
MigrateOpen ==
    /\ MAt("m_idle")
    /\ Me.runs < MaxRuns
    /\ LET f == Me.file
           begun == [Me EXCEPT !.runs = @ + 1, !.pre = f, !.preb = Me.backup,
                               !.prev = IF Me.runs = 0 THEN "none"
                                        ELSE IF ret.ok THEN "ok" ELSE "err"]
       IN  \/ /\ f = NoFile
              /\ Step([begun EXCEPT !.pc = "m_done"])
              /\ MigrateReturn(TRUE, "")
           \/ /\ f # NoFile
              /\ Step([begun EXCEPT !.pc = "m_done"])
              /\ MigrateReturn(FALSE, "read")
           \/ /\ f = NotJson
              /\ Step([begun EXCEPT !.pc = "m_done"])
              /\ MigrateReturn(FALSE, "parse")
           \/ /\ Parseable(f)
              /\ Step([begun EXCEPT !.pc = "m_version", !.state = f,
                                    !.cur = current_version(f)])
              /\ UNCHANGED ret
    /\ MFrame

\* current_version >= CURRENT_CONFIG_VERSION: the member is added if the
\* object has none, and nothing else is done
MigrateCurrent ==
    /\ MAt("m_version")
    /\ Me.cur >= CURRENT_CONFIG_VERSION
    /\ \/ /\ ~FieldIsNone(Me.state)
          /\ Step([Me EXCEPT !.pc = "m_done"])
          /\ MigrateReturn(TRUE, "")
       \/ /\ FieldIsNone(Me.state)
          /\ ~CanIndex(Me.state)
          /\ Step([Me EXCEPT !.pc = "m_done"])
          /\ MigrateReturn(FALSE, "panic")
       \/ /\ FieldIsNone(Me.state)
          /\ CanIndex(Me.state)
          /\ LET state == SetVersion(Me.state, CURRENT_CONFIG_VERSION)
             IN  \E o \in WriteOutcomes(Me.file, to_string_pretty(state)) :
                   /\ Step([Me EXCEPT !.pc = "m_done", !.state = state, !.file = o.file])
                   /\ MigrateReturn(o.ok, IF o.ok THEN "" ELSE "write")
    /\ MFrame

\* fs::copy(state_path, root/state.json.backup-v<current_version>): a failure
\* is only reported
MigrateBackup ==
    /\ MAt("m_version")
    /\ Me.cur < CURRENT_CONFIG_VERSION
    /\ \/ Step([Me EXCEPT !.pc = "m_chain", !.backup[Me.cur] = Me.file])
       \/ Step([Me EXCEPT !.pc = "m_chain"])
    /\ UNCHANGED ret
    /\ MFrame

\* the migration chain, then the version is stamped
MigrateChain ==
    /\ MAt("m_chain")
    /\ Step([Me EXCEPT !.pc = "m_write",
                       !.state = SetVersion(MigrationChain(Me.state, Me.cur, 1),
                                            CURRENT_CONFIG_VERSION)])
    /\ UNCHANGED ret
    /\ MFrame

\* the state is written back
MigrateWrite ==
    /\ MAt("m_write")
    /\ \E o \in WriteOutcomes(Me.file, to_string_pretty(Me.state)) :
         /\ Step([Me EXCEPT !.pc = "m_done", !.file = o.file])
         /\ MigrateReturn(o.ok, IF o.ok THEN "" ELSE "write")
    /\ MFrame

\* the controller is launched again
Relaunch ==
    /\ MAt("m_done")
    /\ Me.runs < MaxRuns
    /\ Step([Me EXCEPT !.pc = "m_idle", !.state = NoFile, !.cur = 0])
    /\ UNCHANGED ret
    /\ MFrame

NextMigrate ==
    \/ MigrateOpen
    \/ MigrateCurrent
    \/ MigrateBackup
    \/ MigrateChain
    \/ MigrateWrite
    \/ Relaunch

SpecMigrate == InitMigrate /\ [][NextMigrate]_vars

MigrateReturned == phase = "migrate" /\ Me.pc = "m_done" /\ ret.op = "migrate"

\* what the claims about run_migrations say of a finished run
NoFileCreated == Me.pre = NoFile => ret.ok /\ Me.file = NoFile /\ Me.backup = Me.preb
VersionNotLowered ==
    (Me.pre.shape = "object" /\ Me.pre.cv.k \in {"num", "negative"} /\ Parseable(Me.file))
    => VersionNotBelow(Me.file.cv, Me.pre.cv)
VersionIsCurrent ==
    (ret.ok /\ Parseable(Me.pre))
    => Me.file.shape = "object" /\ VersionAtLeast(Me.file.cv, CURRENT_CONFIG_VERSION)
SecondRunChangesNothing ==
    Me.prev = "ok" => Me.file = Me.pre /\ Me.backup = Me.preb

\* C39: a finished run_migrations has not lowered configVersion, has on success
\* left it present and at least CURRENT_CONFIG_VERSION, has changed nothing if
\* the run before it succeeded, and has created no file when there was none
C39_MigrationsOneWayAndConverge ==
    MigrateReturned =>
        /\ NoFileCreated
        /\ VersionNotLowered
        /\ VersionIsCurrent
        /\ SecondRunChangesNothing

\* the same, for a state file whose configVersion is absent or a 32-bit unsigned
\* number
MigrationsConvergeOnU32Versions ==
    (/\ MigrateReturned
     /\ Me.pre.cv.k = "none" \/ (Me.pre.cv.k = "num" /\ Me.pre.cv.hi = 0))
    => /\ NoFileCreated
       /\ VersionNotLowered
       /\ VersionIsCurrent
       /\ SecondRunChangesNothing

\* C40: the step that applies a migration, and the step that rewrites the state
\* file on the migration path, are taken with the backup file of the old version
\* in place
C40_BackupBeforeMigration ==
    [][(\/ /\ MAt("m_chain")
           /\ Me'.state # SetVersion(Me.state, CURRENT_CONFIG_VERSION)
        \/ /\ MAt("m_write")
           /\ Me'.file # Me.file)
       => Me.backup[Me.cur] # NoFile]_vars

\* a backup that has been taken is the state file as it was before the run
BackupIsThePreMigrationFile ==
    [][(MAt("m_version") /\ Me'.backup # Me.backup)
       => Me'.backup[Me.cur] = Me.pre /\ Me'.file = Me.file]_vars

====
